---- MODULE Spec2Model ----
(***************************************************************************)
(* pinakes: the background task queue (src/util/queue.ts, BackgroundQueue  *)
(* extending EventEmitter) and the way Backfill.processPost reports fetch  *)
(* timeouts to it; Backfill.processRepo (the walk over a fetched           *)
(* repository and the stored rev); Backfill.processPost behind the post    *)
(* queue, writePosts, Database.insertPosts, generateEmbeddings and the     *)
(* loop of Backfill.backfill, once and in two runs; XRPCManager (query,    *)
(* queryNoRetry, queryByDid, shouldRetry and the cache of services);       *)
(* Database.searchPostsText and Database.searchPostsVector; the follow     *)
(* graph of the repository queue; Backfill.processPost call by call on     *)
(* one thread (ancestors, replies, quotes); the explain command; the       *)
(* embeddings command; the earlier XRPCManager.query that runs inside the  *)
(* per-service PQueue.                                                     *)
(*                                                                         *)
(* One action is one JavaScript job: the synchronous part of a call, the   *)
(* continuation of an await, a promise reaction (.catch / .finally) or a   *)
(* timer callback.  Jobs run to completion, so each is atomic.             *)
(***************************************************************************)
EXTENDS Integers, Sequences, FiniteSets, TLC

(* ---------------- bounds of the model ---------------- *)
MaxCalls == 3          \* add / prepend calls made by producers
MaxPrepends == 1       \* how many of them may be prepend calls
MaxHard == 2           \* hardConcurrency is drawn from 1..MaxHard
MaxSoft == 1           \* softConcurrency is undefined or in 1..MaxSoft
MaxQueueCap == 1       \* maxQueueSize is unset (0) or in 1..MaxQueueCap
MaxFailures == 1       \* task bodies that reject, over one behaviour
MaxEntries == 2        \* records in a repository that is walked
MaxCrawls == 2         \* processRepo calls over one behaviour
maxDepth == 1          \* this.maxDepth (MAX_DEPTH is 5)
ThreadLen == 4         \* replies below the root of the thread one processPost call sees
MaxVisits == 2         \* processPost calls on that thread
MaxPosts == 3          \* rows of table post when the embeddings command runs
pageSize == 2          \* limit(25) of the query of the embeddings command
MaxRejections == 2     \* times in a row an operation is rejected behind the limiter
WRITE_POSTS_BATCH_SIZE == 1   \* rows per insertPosts call (20 in the source)
MaxQueries == 3        \* query / queryNoRetry / queryByDid calls
MaxAttempts == 7       \* calls of fn that one query may make
MaxNow == 2            \* seconds that pass by themselves
MaxResults == 2          \* options.results is drawn from 1..MaxResults
concurrency == 2         \* operations in flight per service (10 in the source)
MaxCached == 1         \* maxSize of the LruCache (100_000 in the source)

undefined == 0 - 1     \* an option that was not passed to the constructor

VARIABLES
    _hard,                    \* this._hard
    _soft,                    \* this._soft (undefined or a number)
    _maxQueueSize,            \* this._maxQueueSize (0: not configured)
    _queue,                   \* this._queue: waiting entries, head first
    _active,                  \* this._active
    _running,                 \* this._running
    promisesWaitingForSpace,  \* resolvers of producers suspended in add/prepend
    pc,                       \* position of every producer call
    method,                   \* "add" or "prepend", per producer call
    execs,                    \* the _startTask closures whose .finally has not run
    processAllState,          \* the single processAll() call
    queuedEvents,             \* emit("queued") count
    completedEvents,          \* emit("completed") count
    errorEvents,              \* emit("error") count, per argument tuple
    failures,                 \* rejected task bodies so far
    entered,                  \* history: entries into the waiting list so far
    starts,                   \* history: _startTask calls so far
    waitingAtCall,            \* history: entries waiting when prepend was called
    waitingAtInsert           \* history: entries waiting when prepend inserted

\* Backfill and the Database it writes to
VARIABLES
    repoRev,                  \* table repo: did -> rev (no row: the empty string)
    remote,                   \* what com.atproto.sync.getRepo serves, per did
    crawls                    \* the processRepo calls, each with its position

queueVars == << _hard, _soft, _maxQueueSize, _queue, _active, _running,
                promisesWaitingForSpace, pc, method, execs, processAllState,
                queuedEvents, completedEvents, errorEvents, failures, entered,
                starts, waitingAtCall, waitingAtInsert >>

\* Backfill: the processPost calls behind the post queue (the queue above is
\* then Backfill.postQueue), the write buffer, the embeddings queue, backfill()
VARIABLES
    calls,                    \* per post-queue tuple: its options, the position
                              \* of the processPost call made for it
    seenPosts,                \* this.seenPosts
    toWrite,                  \* this.toWrite
    writes,                   \* batches whose insertPosts has not answered
    post,                     \* table post: uri -> row
    buffered,                 \* history: queueWritePost calls, per uri
    embeddingsEnabled,        \* this.embeddingsEnabled
    embeddingsQueue,          \* this.embeddingsQueue: waiting list and task
    backfill                  \* the backfill() call: its position

\* XRPCManager and the callers of its methods; the searches of Database
VARIABLES
    queries,                  \* the query / queryNoRetry / queryByDid calls
    now,                      \* Date.now(), in seconds
    didToServiceCache,        \* this.didToServiceCache: entries, oldest first
    search                    \* a searchPostsText / searchPostsVector call, or
                              \* the explain or the embeddings command

repoVars == << repoRev, remote, crawls >>

engineVars == << calls, seenPosts, toWrite, writes, post, buffered,
                 embeddingsEnabled, embeddingsQueue, backfill >>

backfillVars == << repoVars, engineVars >>
clientVars == << queries, now, didToServiceCache >>
outerVars == << clientVars, search >>

\* processPost call by call on one thread: the calls, what they have
\* buffered, handed to the post queue and requested
visit == calls

\* the explain command: table post, seen, the uri explainUri is at, what it
\* has looked up and printed
explain == search

\* the embeddings command: table post, offset, the page, the write queue
command == search

vars == << queueVars, backfillVars, outerVars >>

config == << _hard, _soft, _maxQueueSize >>

Calls == 1..MaxCalls   \* a producer call and the argument tuple it passes

Range(s) == {s[i] : i \in DOMAIN s}

RECURSIVE SumOver(_, _)
\* the sum of f over the set S
SumOver(f, S) ==
    IF S = {} THEN 0
    ELSE LET x == CHOOSE y \in S : TRUE IN f[x] + SumOver(f, S \ {x})

\* An entry of the waiting list is the argument tuple (named by the call
\* that passed it) with the ordinal of its entry into the list; the ordinal
\* is history, the code stores the tuple alone.
Args(queue) == [k \in DOMAIN queue |-> queue[k].args]

Tickets(queue) == {queue[k].ticket : k \in DOMAIN queue}

(* ---------------- Backfill.processPost: what a fetch failure becomes ---- *)

\* outcome of the getPostThread request (AbortSignal.timeout(10_000))
ThreadOutcomes == {"threadViewPost", "blockedPost", "notFoundPost", "TimeoutError", "Error"}
\* final outcome of xrpc.queryByDid for the getRecord request
\* (AbortSignal.timeout(15_000)); a timeout carries no status, header or
\* network marker, so XRPCManager.query passes it on
RecordOutcomes == {"ok", "TimeoutError", "Error"}

\* Backfill.fetchPost: "record" when a record comes back, else the name of
\* the error it throws.
fetchPost(thread, rec) ==
    IF thread = "threadViewPost" THEN "record"
    ELSE IF thread = "notFoundPost" THEN "NotFound"
    ELSE IF thread = "TimeoutError" THEN "TimeoutError"
    ELSE \* blockedPost, or an error that is logged: fall back to getRecord
         IF rec = "ok" THEN "record" ELSE rec

\* Backfill.processPost without a supplied record: the name of the error the
\* task body rejects with, "none" when it returns.
processPost(thread, rec) ==
    IF fetchPost(thread, rec) = "TimeoutError"
        THEN "TimeoutError"   \* throw e; // handled by BackgroundQueue
        ELSE "none"           \* NotFound and other errors: return

\* what the function given to a queue can reject with
FnResults ==
    {"none", "AbortError", "Error"}
        \cup {processPost(t, r) : t \in ThreadOutcomes, r \in RecordOutcomes}

(* ---------------- data of Backfill and Database ---------------- *)

\* strings that are compared (record keys, revs) are sequences of characters,
\* a character being its code
RECURSIVE lexLess(_, _)
\* a < b on JavaScript strings
lexLess(a, b) ==
    IF b = << >> THEN FALSE
    ELSE IF a = << >> THEN TRUE
    ELSE IF Head(a) < Head(b) THEN TRUE
    ELSE IF Head(a) > Head(b) THEN FALSE
    ELSE lexLess(Tail(a), Tail(b))

\* getRepoRev of a did without a row: undefined, falsy like the empty string
noRev == << >>

\* isTid: a string of the fixed TID length (two characters here)
isTid(s) == Len(s) = Len(<< 1, 1 >>)

\* revisions a repository goes through, oldest first
Tids == << << 1, 1 >>, << 1, 2 >>, << 2, 1 >> >>

\* record keys: TIDs and one key that is no TID
RKeys == { << 1, 1 >>, << 1, 2 >>, << 2 >> }

userDid == "did:plc:user"

Dids == {userDid, "did:plc:followed"}

\* collection NSIDs, in the order of the keys of a repository
Collections ==
    << "app.bsky.actor.profile", "app.bsky.feed.like", "app.bsky.feed.post",
       "app.bsky.feed.repost", "app.bsky.graph.follow" >>

CrawlIds == 1..MaxCrawls

\* the posts the model knows: one of the user, one of the followed account,
\* one of an account that is not crawled
PostUris ==
    { [repo |-> did, collection |-> "app.bsky.feed.post", rkey |-> << 1, 1 >>] :
        did \in Dids \cup {"did:plc:other"} }

\* the post a post of the model refers to, as the record it quotes, as the
\* post it replies to or as the reply in its thread
linked(uri) ==
    [uri EXCEPT !.repo = IF uri.repo = userDid THEN "did:plc:followed"
                         ELSE IF uri.repo = "did:plc:followed" THEN "did:plc:other"
                         ELSE userDid]

\* a tuple that has not been passed to the post queue
noCall == [pc |-> "none"]

\* a processPost call that has returned, and one that has thrown (its
\* arguments are not read again)
returned == [pc |-> "returned"]

threw == [pc |-> "threw"]

\* a processPost call that has returned at the test of the depth
stopped == [pc |-> "returned", tooDeep |-> TRUE]

\* no row for a uri in table post
noRow == [text |-> "", embedding |-> "null", altTextEmbedding |-> "null",
          inclusionReason |-> "null", inclusionContext |-> "null"]

\* a processRepo call that has not been made
idleCrawl ==
    [ pc |-> "idle", did |-> userDid, collections |-> {}, rev |-> noRev,
      commit |-> noRev, car |-> << >>, records |-> << >>, handed |-> << >> ]

(* ---------------- BackgroundQueue ---------------- *)

\* the mutable fields of the queue (and the history kept along with them),
\* as one value the helpers transform
Cur == [ queue |-> _queue, running |-> _running, active |-> _active,
         waiters |-> promisesWaitingForSpace, pc |-> pc, execs |-> execs,
         entered |-> entered, starts |-> starts,
         waitingAtCall |-> waitingAtCall, waitingAtInsert |-> waitingAtInsert ]

\* the fields after a job; Done is worked out once and read field by field
Commit(Done) ==
    \E S \in {Done} :
        /\ _queue' = S.queue
        /\ _running' = S.running
        /\ _active' = S.active
        /\ promisesWaitingForSpace' = S.waiters
        /\ pc' = S.pc
        /\ execs' = S.execs
        /\ entered' = S.entered
        /\ starts' = S.starts
        /\ waitingAtCall' = S.waitingAtCall
        /\ waitingAtInsert' = S.waitingAtInsert

isAbortError_anyError(err) == err # "none"

\* err instanceof DOMException && err.name === "AbortError"
isAbortError(err) == err = "AbortError"

_canStart_noHard(queue, running, active) ==
    /\ Len(queue) # 0
    /\ ~(_soft # undefined /\ active >= _soft)

_canStart_noSoft(queue, running, active) ==
    /\ Len(queue) # 0
    /\ ~(running >= _hard)

_canStart(queue, running, active) ==
    /\ Len(queue) # 0
    /\ ~(running >= _hard)
    /\ ~(_soft # undefined /\ active >= _soft)

shift_pop(queue) ==
    [entry |-> queue[Len(queue)], rest |-> SubSeq(queue, 1, Len(queue) - 1)]

\* this._queue.shift(): the entry taken and what stays in the list
shift(queue) == [entry |-> Head(queue), rest |-> Tail(queue)]

decrement_always(active, countsTowardsSoft) ==
    IF active - 1 > 0 THEN active - 1 ELSE 0

\* if (countsTowardsSoft) this._active = Math.max(this._active - 1, 0)
decrement(active, countsTowardsSoft) ==
    IF countsTowardsSoft THEN (IF active - 1 > 0 THEN active - 1 ELSE 0)
    ELSE active

\* if (this._maxQueueSize && this.size >= this._maxQueueSize)
mustWait(queue) == _maxQueueSize # 0 /\ Len(queue) >= _maxQueueSize

RECURSIVE notifyLoop(_)
notifyLoop(S) ==
    IF Len(S.waiters) # 0 /\ Len(S.queue) < _maxQueueSize
        THEN notifyLoop([S EXCEPT !.waiters = Tail(@),
                                  !.pc[Head(S.waiters)] = "resumed"])
        ELSE S

_notifyWaiting_never(S) == S

_notifyWaiting(S) == IF _maxQueueSize = 0 THEN S ELSE notifyLoop(S)

\* the synchronous part of _startTask; a prepended tuple that starts has
\* overtaken whatever it was recorded against
_startTask(S, entry) ==
    [S EXCEPT !.running = @ + 1,
              !.active = IF _soft # undefined THEN @ + 1 ELSE @,
              !.execs = @ \cup {[args |-> entry.args, ticket |-> entry.ticket,
                                 phase |-> "running",
                                 countsTowardsSoft |-> (_soft # undefined),
                                 err |-> "none"]},
              !.starts = @ + 1,
              !.waitingAtCall[entry.args] = {},
              !.waitingAtInsert[entry.args] = {}]

\* while (this._canStart()) { shift; _notifyWaiting(); _startTask(args) }:
\* the fields after one round are worked out once, then the loop goes on
RECURSIVE _drain(_)
_drain(S) ==
    IF _canStart(S.queue, S.running, S.active)
        THEN CHOOSE end \in
                 { _drain(round) :
                     round \in { _startTask(_notifyWaiting([S EXCEPT !.queue = shift(@).rest]),
                                            shift(S.queue).entry) } } : TRUE
        ELSE S

onDone_sizeOnly(state, queue, running) ==
    IF state = "pending" /\ Len(queue) = 0 THEN "resolved" ELSE state

\* processAll's onDone listener
onDone(state, queue, running) ==
    IF state = "pending" /\ Len(queue) = 0 /\ running = 0 THEN "resolved" ELSE state

\* a push that drops the tuple
push_lost(S, args) == S

\* this._queue.push(args)
push(S, args) ==
    [S EXCEPT !.queue = Append(@, [args |-> args, ticket |-> S.entered + 1]),
              !.entered = @ + 1]

\* prepend: the tuple goes to the head of the waiting list
unshift(S, args) ==
    [S EXCEPT !.queue = << [args |-> args, ticket |-> S.entered + 1] >> \o @,
              !.entered = @ + 1]

\* where the producer's method puts the tuple
insert(S, args, m) == IF m = "add" THEN push(S, args) ELSE unshift(S, args)

\* the fields after insert and _drain()
enqueue(S, id, m) ==
    _drain([insert(S, id, m) EXCEPT
              !.pc[id] = "returned",
              !.waitingAtInsert[id] = IF m = "prepend" THEN Tickets(S.queue) ELSE {}])

\* add / prepend after the wait for space: insert, emit("queued"), _drain()
Enter(S, id, m) ==
    /\ Commit(enqueue(S, id, m))
    /\ queuedEvents' = queuedEvents + 1

\* a producer calls add(...args) or prepend(...args)
Call(id, m) ==
    /\ pc[id] = "idle"
    /\ \A j \in Calls : j < id => pc[j] # "idle"
    /\ method' = [method EXCEPT ![id] = m]
    /\ LET S == [Cur EXCEPT !.waitingAtCall[id] =
                                IF m = "prepend" THEN Tickets(_queue) ELSE {}]
       IN  IF mustWait(_queue)
             THEN /\ Commit([S EXCEPT !.waiters = Append(@, id),
                                      !.pc[id] = "suspended"])
                  /\ UNCHANGED queuedEvents
             ELSE Enter(S, id, m)
    /\ UNCHANGED << config, processAllState, completedEvents,
                    errorEvents, failures, backfillVars, outerVars >>

Add(id) == Call(id, "add")

Prepend(id) ==
    /\ Cardinality({j \in Calls : method[j] = "prepend"}) < MaxPrepends
    /\ Call(id, "prepend")

\* the continuation of the await in add / prepend, as it reads and writes
\* the fields of the queue
ResumeQueue(id) ==
    /\ pc[id] = "resumed"
    /\ Enter(Cur, id, method[id])
    /\ UNCHANGED << config, method, processAllState, completedEvents,
                    errorEvents, failures >>

\* the continuation of the await in add / prepend
Resume(id) ==
    /\ ResumeQueue(id)
    /\ UNCHANGED << backfillVars, outerVars >>

\* the setTimeout callback of _startTask
SoftTimeout(e) ==
    /\ e \in execs
    /\ e.phase = "running"
    /\ e.countsTowardsSoft
    /\ Commit(_drain([Cur EXCEPT
                        !.execs = (@ \ {e}) \cup {[e EXCEPT !.countsTowardsSoft = FALSE]},
                        !.active = decrement(@, e.countsTowardsSoft)]))
    /\ UNCHANGED << config, method, processAllState, queuedEvents,
                    completedEvents, errorEvents, failures, backfillVars, outerVars >>

\* the task body rejects with err; the .catch reaction of _startTask runs.
\* An "error" listener is registered, as Backfill does for its queues, so
\* emit("error") returns.
Reject(e, err) ==
    /\ e \in execs
    /\ e.phase = "running"
    /\ err # "none"
    /\ failures < MaxFailures
    /\ failures' = failures + 1
    /\ LET S == [Cur EXCEPT !.execs = (@ \ {e}) \cup
                               {[e EXCEPT !.phase = "settled", !.err = err]}]
       IN  IF isAbortError(err)
             THEN /\ Commit(_notifyWaiting(push(S, e.args)))
                  /\ UNCHANGED << errorEvents, processAllState >>
             ELSE /\ Commit(S)
                  /\ errorEvents' = [errorEvents EXCEPT ![e.args] = @ + 1]
                  /\ processAllState' = onDone(processAllState, _queue, _running)
    /\ UNCHANGED << config, method, queuedEvents, completedEvents, backfillVars, outerVars >>

\* the .finally reaction of _startTask: after the .catch reaction, or right
\* after the task body fulfilled (.catch then passes the value through)
FinallyQueue(e) ==
    /\ e \in execs
    /\ LET S == [Cur EXCEPT !.execs = @ \ {e},
                            !.running = @ - 1,
                            !.active = decrement(@, e.countsTowardsSoft)]
       IN  /\ processAllState' = onDone(processAllState, S.queue, S.running)
           /\ Commit(_drain(_notifyWaiting(S)))
    /\ completedEvents' = completedEvents + 1
    /\ UNCHANGED << config, method, queuedEvents, errorEvents, failures >>

\* the same reaction in the whole state: it touches the queue only
Finally(e) ==
    /\ FinallyQueue(e)
    /\ UNCHANGED << backfillVars, outerVars >>

\* processAll() is called
ProcessAll ==
    /\ processAllState = "idle"
    /\ processAllState' = onDone("pending", _queue, _running)
    /\ UNCHANGED << config, _queue, _active, _running, promisesWaitingForSpace,
                    pc, method, execs, queuedEvents, completedEvents, errorEvents,
                    failures, entered, starts, waitingAtCall, waitingAtInsert,
                    backfillVars, outerVars >>

\* the fields of a queue after construction
QueueConstructed ==
    /\ _queue = << >>
    /\ _active = 0
    /\ _running = 0
    /\ promisesWaitingForSpace = << >>
    /\ pc = [id \in Calls |-> "idle"]
    /\ method = [id \in Calls |-> "none"]
    /\ execs = {}
    /\ processAllState = "idle"
    /\ queuedEvents = 0
    /\ completedEvents = 0
    /\ errorEvents = [id \in Calls |-> 0]
    /\ failures = 0
    /\ entered = 0
    /\ starts = 0
    /\ waitingAtCall = [id \in Calls |-> {}]
    /\ waitingAtInsert = [id \in Calls |-> {}]

\* no processPost call, nothing buffered, table post empty, backfill() not called
NoEngine ==
    /\ calls = [id \in Calls |-> noCall]
    /\ seenPosts = {}
    /\ toWrite = << >>
    /\ writes = << >>
    /\ post = [uri \in PostUris |-> noRow]
    /\ buffered = [uri \in PostUris |-> 0]
    /\ embeddingsEnabled = FALSE
    /\ embeddingsQueue = [queue |-> << >>, running |-> << >>, embedded |-> {},
                          processAll |-> "idle"]
    /\ backfill = "off"

\* a queue on its own: no Backfill around it (no calls, no buffers, no
\* embeddings queue) and no database (no table, no remote repository)
NoBackfill ==
    /\ repoRev = << >>
    /\ remote = << >>
    /\ crawls = << >>
    /\ calls = << >>
    /\ seenPosts = {}
    /\ toWrite = << >>
    /\ writes = << >>
    /\ post = << >>
    /\ buffered = << >>
    /\ embeddingsEnabled = FALSE
    /\ embeddingsQueue = << >>
    /\ backfill = "off"

\* no XRPCManager call has been made and no search is run
NoRequests ==
    /\ queries = << >>
    /\ now = 0
    /\ didToServiceCache = << >>
    /\ search = << >>

Init ==
    /\ _hard \in 1..MaxHard
    /\ _soft \in {undefined} \cup (1..MaxSoft)
    /\ _maxQueueSize \in 0..MaxQueueCap
    /\ QueueConstructed
    /\ NoBackfill
    /\ NoRequests

\* producers that only use add
Next ==
    \/ \E id \in Calls : Add(id)
    \/ \E id \in Calls : Resume(id)
    \/ \E e \in execs : SoftTimeout(e)
    \/ \E e \in execs, err \in FnResults : Reject(e, err)
    \/ \E e \in execs : Finally(e)

Spec == Init /\ [][Next]_vars

\* producers that use add and prepend
NextPrepend ==
    \/ \E id \in Calls : Prepend(id)
    \/ Next

SpecPrepend == Init /\ [][NextPrepend]_vars

\* producers that use add, and one caller of processAll
NextProcessAll ==
    \/ ProcessAll
    \/ Next

\* a job of the event loop that is due: the continuation of a resumed
\* producer, the .finally reaction of a task body that has settled.  Both
\* write fields of the queue only, and every step of Next and NextProcessAll
\* leaves backfillVars alone, so the jobs are stated over queueVars.
Progress ==
    \/ \E id \in Calls : ResumeQueue(id)
    \/ \E e \in execs : FinallyQueue(e)

\* the event loop runs the jobs that are due, and task bodies settle
FairSpec == Spec /\ WF_queueVars(Progress)

FairSpecProcessAll == Init /\ [][NextProcessAll]_vars /\ WF_queueVars(Progress)

(* ======================= properties ======================= *)

\* the job of this step is the .catch reaction of execution e, run for err
RejectedNow(e, err) ==
    /\ e \in execs
    /\ e.phase = "running"
    /\ failures' = failures + 1
    /\ [e EXCEPT !.phase = "settled", !.err = err] \in execs'

\* the argument tuples of the entry with ordinal t, waiting or executing
EntryArgs(t, queue, ex) ==
    {queue[k].args : k \in {j \in DOMAIN queue : queue[j].ticket = t}}
        \cup {e.args : e \in {x \in ex : x.ticket = t}}

\* C1: whatever the interleaving of add calls, starts, soft timeouts,
\* completions, failures and requeues, the number of running tasks never
\* exceeds hardConcurrency.
C1_RunningAtMostHard ==
    /\ _running <= _hard
    /\ Cardinality(execs) <= _hard

\* the hard limit holds a waiting task back after some task has completed
C1_Witness ==
    /\ _running = _hard
    /\ Len(_queue) > 0
    /\ completedEvents > 0
    /\ \E e \in execs : ~e.countsTowardsSoft

\* C2: with softConcurrency configured a start leaves activeTasks within
\* softConcurrency and runningTasks within hardConcurrency; without it only
\* the hard limit gates starts: no task counts as active, and once the
\* pending .finally reactions have run a tuple waits only at the hard limit.
C2_SoftGatesStarts ==
    /\ _soft # undefined => _active <= _soft /\ _running <= _hard
    /\ _soft = undefined =>
          /\ _active = 0
          /\ (Len(_queue) > 0 /\ \A e \in execs : e.phase = "running")
                => _running = _hard

\* a tuple waits because of the soft limit alone
C2_Witness ==
    /\ _soft # undefined
    /\ _active = _soft
    /\ _running < _hard
    /\ Len(_queue) > 0
    /\ \A e \in execs : e.phase = "running"

\* C3: a task whose soft timeout fired stops counting toward activeTasks and
\* keeps counting toward runningTasks until its .finally; every task takes
\* its unit off activeTasks once, so 0 <= activeTasks <= runningTasks.
C3_ActiveCountsOnce ==
    /\ _running = Cardinality(execs)
    /\ _active = Cardinality({e \in execs : e.countsTowardsSoft})
    /\ 0 <= _active
    /\ _active <= _running

\* a demoted task is still running next to a counting one, after a completion
C3_Witness ==
    /\ _soft # undefined
    /\ \E e \in execs : ~e.countsTowardsSoft
    /\ \E e \in execs : e.countsTowardsSoft
    /\ completedEvents > 0
    /\ _active < _running

\* C4: with maxQueueSize configured the waiting list never holds more than
\* maxQueueSize tuples.
C4_QueueWithinMax == _maxQueueSize # 0 => Len(_queue) <= _maxQueueSize

\* C5: a producer is suspended only while the waiting list is full, so it is
\* resumed in the very job in which the list drops below maxQueueSize (the
\* .finally that emits completed, at the latest); its continuation appends
\* its tuple at the tail (from where it may start at once); while task
\* bodies keep settling, time and again no producer is waiting for space.
C5_SuspendedProducerResumes ==
    /\ [](Len(promisesWaitingForSpace) > 0 =>
            (_maxQueueSize # 0 /\ Len(_queue) >= _maxQueueSize))
    /\ [][ \A id \in Calls : (pc[id] = "resumed" /\ pc'[id] = "returned") =>
              /\ entered' = entered + 1
              /\ EntryArgs(entered', _queue', execs') = {id}
              /\ \/ \E e \in execs' : e.ticket = entered'
                 \/ _queue'[Len(_queue')].ticket = entered' ]_vars
    /\ []<>(\A id \in Calls : pc[id] \notin {"suspended", "resumed"})

\* a producer that was suspended has been resumed by a job that made room
C5_Witness ==
    \E id \in Calls :
        /\ pc[id] = "resumed"
        /\ Len(_queue) < _maxQueueSize
        /\ completedEvents > 0

\* C6: processAll resolves only when the waiting list is empty and nothing
\* is running, never stays pending in such a state, and does resolve while
\* producers keep calling add.
C6_ProcessAllResolves ==
    /\ [][ (processAllState # "resolved" /\ processAllState' = "resolved")
              => (Len(_queue') = 0 /\ _running' = 0) ]_vars
    /\ [](processAllState = "pending" => ~(Len(_queue) = 0 /\ _running = 0))
    /\ []<>(processAllState # "pending")

\* processAll has resolved after tasks completed, one of them after a failure
C6_Witness ==
    /\ processAllState = "resolved"
    /\ completedEvents > 1
    /\ failures > 0
    /\ \A id \in Calls : pc[id] = "returned"

C8_TimeoutRequeued ==
    [][ \A e \in execs : \A t \in ThreadOutcomes, r \in RecordOutcomes :
            (fetchPost(t, r) = "TimeoutError" /\ RejectedNow(e, processPost(t, r))) =>
                /\ Args(_queue') = Append(Args(_queue), e.args)
                /\ errorEvents' = errorEvents
      ]_vars

\* C9: with add only, the tuple at position k of the waiting list is the
\* (starts + k)-th entry into the list, so the n-th start takes the n-th
\* entry: tuples are started in the order in which they entered, a requeue
\* being one more entry, placed behind every tuple waiting at that moment.
C9_FifoStarts ==
    /\ entered = starts + Len(_queue)
    /\ \A k \in DOMAIN _queue : _queue[k].ticket = starts + k
    /\ \A e \in execs : e.ticket <= starts

\* a requeued tuple waits behind another tuple, and a tuple that entered
\* after the first one has been started since
C9_Witness ==
    /\ failures > 0
    /\ \A a \in Calls : errorEvents[a] = 0
    /\ starts > 1
    /\ Len(_queue) > 1
    /\ \A id \in Calls : method[id] # "prepend"

\* C10 (as stated): a prepended tuple is started before every tuple that was
\* waiting when prepend was called: until it starts, they all still wait.
C10_BeforeWaitingAtCall ==
    \A x \in Calls : waitingAtCall[x] \subseteq Tickets(_queue)

\* C10 (amended): prepend suspends exactly when add would, its tuple goes to
\* the head of the waiting list, and until it starts every tuple that was
\* waiting at the moment of the insertion still waits.
C10_BeforeWaitingAtInsert ==
    /\ [][ \A x \in Calls : (pc[x] = "idle" /\ method'[x] = "prepend") =>
              (pc'[x] = "suspended"
                 <=> (_maxQueueSize # 0 /\ Len(_queue) >= _maxQueueSize)) ]_vars
    /\ [](\A x \in Calls : waitingAtInsert[x] \subseteq Tickets(_queue))
    /\ [][ \A x \in Calls :
              (method'[x] = "prepend" /\ pc[x] # "returned" /\ pc'[x] = "returned") =>
                  /\ entered' = entered + 1
                  /\ EntryArgs(entered', _queue', execs') = {x}
                  /\ \/ \E e \in execs' : e.ticket = entered'
                     \/ _queue'[1].ticket = entered' ]_vars

\* a prepend that had to wait for space sits at the head of the waiting
\* list, in front of a tuple that entered while it waited
C10_Witness ==
    \E x \in Calls :
        /\ method[x] = "prepend"
        /\ pc[x] = "returned"
        /\ Len(_queue) > 1
        /\ _queue[1].args = x
        /\ waitingAtInsert[x] # {}
        /\ waitingAtInsert[x] # waitingAtCall[x]

\* the task bodies that failed with an AbortError so far: every failure
\* that emitted no error event
aborts == failures - SumOver(errorEvents, Calls)

\* the tuples whose add call has pushed them
accepted == {id \in Calls : pc[id] = "returned"}

\* the entries that are started in this step
startedNow == {e.ticket : e \in execs'} \ {e.ticket : e \in execs}

\* C40: the queue neither loses nor duplicates work.  Every entry into the
\* waiting list is one accepted add call or one re-append after an
\* AbortError, every entry that has left the list was started once, an
\* entry leaves the list only by being started, a tuple whose body is
\* executing is not in the list, one completed event is emitted per
\* finished execution, and while the due jobs run the list is emptied time
\* and again, so that every tuple in it is started.
C40_NoLossNoDuplicate ==
    /\ [](/\ entered = Cardinality(accepted) + aborts
          /\ starts = entered - Len(_queue)
          /\ Cardinality(Tickets(_queue)) = Len(_queue)
          /\ Tickets(_queue) \cap {e.ticket : e \in execs} = {}
          /\ \A e \in execs : e.phase = "running" => e.args \notin Range(Args(_queue))
          /\ completedEvents = starts - Cardinality(execs))
    /\ [][ /\ Tickets(_queue) \ Tickets(_queue') \subseteq startedNow
           /\ startedNow \subseteq Tickets(_queue) \cup ((entered + 1)..entered')
           /\ Cardinality(startedNow) = starts' - starts
           /\ \A t \in (entered + 1)..entered' :
                 \/ \E id \in Calls :
                       /\ pc[id] # "returned" /\ pc'[id] = "returned"
                       /\ EntryArgs(t, _queue', execs') = {id}
                 \/ \E e \in execs :
                       /\ RejectedNow(e, "AbortError")
                       /\ EntryArgs(t, _queue', execs') = {e.args}
         ]_vars
    /\ []<>(_queue = << >>)

\* a tuple has been started a second time after its body failed with an
\* AbortError, and another tuple has completed
C40_Witness ==
    /\ aborts = 1
    /\ starts = Cardinality(accepted) + 1
    /\ completedEvents > 1
    /\ \E e \in execs : e.phase = "running" /\ e.ticket > Cardinality(accepted)

(* ---------------- Backfill.processRepo ---------------- *)

\* the keys of Backfill.processors
processorKeys ==
    { "app.bsky.feed.post", "app.bsky.feed.repost", "app.bsky.feed.like",
      "app.bsky.graph.follow" }

\* the collections backfill() asks for in the user's repository
ownCollections ==
    { "app.bsky.feed.post", "app.bsky.feed.repost", "app.bsky.feed.like",
      "app.bsky.graph.follow" }

\* the default of the parameter collections, used for every other repository
defaultCollections == { "app.bsky.feed.post", "app.bsky.feed.repost" }

\* what a block of a record holds: a record of its collection's schema, a
\* value that is not of the schema, or bytes that are no CBOR / no block
Shapes == {"valid", "invalid", "undecodable"}

\* an entry of the MST: key collection/rkey and the block behind its cid
Entries == [collection : 1..Len(Collections), rkey : RKeys, shape : Shapes]

\* order of the keys collection/rkey
keyLess(a, b) ==
    \/ a.collection < b.collection
    \/ a.collection = b.collection /\ lexLess(a.rkey, b.rkey)

\* walkMstEntries yields the entries in key order, each key once
Cars(n) ==
    { car \in UNION { [1..k -> Entries] : k \in 0..n } :
        \A i \in 1..(Len(car) - 1) : keyLess(car[i], car[i + 1]) }

\* the subject of a repost, like or follow record
subject(collection) ==
    IF collection = "app.bsky.graph.follow" THEN "did:plc:followed"
    ELSE [repo |-> "did:plc:followed", collection |-> "app.bsky.feed.post",
          rkey |-> << 1, 1 >>]

\* the condition under which the first loop ignores a record
skip_noFollowExemption(rev, rkey, isOwnRepo, collection) ==
    rev # noRev /\ isTid(rev) /\ lexLess(rkey, rev)

skip_never(rev, rkey, isOwnRepo, collection) == FALSE

skip(rev, rkey, isOwnRepo, collection) ==
    /\ rev # noRev /\ isTid(rev) /\ lexLess(rkey, rev)
    /\ (~isOwnRepo \/ collection # "app.bsky.graph.follow")

\* the element the first loop pushes for an entry it keeps
recordOf(did, e) ==
    LET collection == Collections[e.collection]
        base == [uri |-> [repo |-> did, collection |-> collection, rkey |-> e.rkey],
                 collection |-> collection, record |-> e.shape]
    IN IF collection = "app.bsky.feed.post"
       THEN IF did = userDid
            THEN base @@ [inclusion |-> [reason |-> "self"]]
            ELSE base @@ [inclusion |-> [reason |-> "by_follow"]]
       ELSE base

RECURSIVE walk(_, _, _, _)
\* the first loop: ok is FALSE when decoding a block throws
walk(car, did, rev, collections) ==
    IF car = << >> THEN [ok |-> TRUE, records |-> << >>]
    ELSE LET e == Head(car)
             collection == Collections[e.collection]
             rest == walk(Tail(car), did, rev, collections)
         IN IF collection \notin collections \/ collection \notin processorKeys
            THEN rest
            ELSE IF e.shape = "undecodable"
            THEN [ok |-> FALSE, records |-> << >>]
            ELSE IF skip(rev, e.rkey, did = userDid, collection)
            THEN rest
            ELSE [ok |-> rest.ok,
                  records |-> IF rest.ok THEN << recordOf(did, e) >> \o rest.records
                              ELSE << >>]

\* Backfill.processors[collection](uri, record, inclusion): the adds it makes
processors(r) ==
    IF r.record # "valid" THEN [threw |-> FALSE, adds |-> << >>]
    ELSE IF r.collection = "app.bsky.feed.post"
    THEN IF "inclusion" \notin DOMAIN r
         THEN [threw |-> TRUE, adds |-> << >>]
         ELSE [threw |-> FALSE,
               adds |-> << [queue |-> "postQueue", uri |-> r.uri,
                            inclusion |-> r.inclusion, from |-> r.uri] >>]
    ELSE IF r.collection = "app.bsky.feed.repost"
    THEN [threw |-> FALSE,
          adds |-> << [queue |-> "postQueue", uri |-> subject(r.collection),
                       inclusion |-> [reason |-> "reposted_by", context |-> r.uri.repo],
                       from |-> r.uri] >>]
    ELSE IF r.collection = "app.bsky.feed.like"
    THEN [threw |-> FALSE,
          adds |-> << [queue |-> "postQueue", uri |-> subject(r.collection),
                       inclusion |-> [reason |-> "liked_by_self"],
                       from |-> r.uri] >>]
    ELSE [threw |-> FALSE,
          adds |-> << [queue |-> "repoQueue", did |-> subject(r.collection),
                       from |-> r.uri] >>]

\* the catch block of processRepo
catch_setsRev(c) ==
    /\ crawls' = [crawls EXCEPT ![c].pc = "failed"]
    /\ repoRev' = [repoRev EXCEPT ![crawls[c].did] = remote[crawls[c].did].rev]

catch(c) ==
    /\ crawls' = [crawls EXCEPT ![c].pc = "failed"]
    /\ UNCHANGED repoRev

\* processRepo(did, collections) is called: up to the first await
Begin(c, did, collections) ==
    /\ crawls[c].pc = "idle"
    /\ \A b \in CrawlIds : b < c => crawls[b].pc # "idle"
    /\ crawls' = [crawls EXCEPT ![c] = [@ EXCEPT !.pc = "getRepoRev", !.did = did,
                                                 !.collections = collections]]
    /\ UNCHANGED << queueVars, engineVars, outerVars, repoRev, remote >>

\* getRepoRev answers; the repository is asked for
GotRev(c) ==
    /\ crawls[c].pc = "getRepoRev"
    /\ crawls' = [crawls EXCEPT ![c] = [@ EXCEPT !.pc = "getRepo",
                                                 !.rev = repoRev[crawls[c].did]]]
    /\ UNCHANGED << queueVars, engineVars, outerVars, repoRev, remote >>

\* getRepo answers or fails, as fails tells; the archive is read and the
\* first loop runs
FetchedOn(c, fails) ==
    /\ crawls[c].pc = "getRepo"
    /\ \/ /\ TRUE \in fails             \* the query, the archive or the commit
          /\ catch(c)
       \/ /\ FALSE \in fails
          /\ LET did == crawls[c].did
                 w == walk(remote[did].car, did, crawls[c].rev, crawls[c].collections)
             IN IF ~w.ok THEN catch(c)
                ELSE /\ crawls' = [crawls EXCEPT ![c] =
                           [@ EXCEPT !.pc = IF w.records = << >> THEN "setRepoRev"
                                            ELSE "handing",
                                     !.commit = remote[did].rev,
                                     !.records = w.records]]
                     /\ UNCHANGED repoRev
    /\ UNCHANGED << queueVars, engineVars, outerVars, remote >>

Fetched(c) == FetchedOn(c, BOOLEAN)

\* one round of the second loop, for processRepo itself
handOver(c) ==
    /\ crawls[c].pc = "handing"
    /\ LET r == Head(crawls[c].records)
           p == processors(r)
           rest == Tail(crawls[c].records)
       IN IF p.threw THEN catch(c)
          ELSE /\ crawls' = [crawls EXCEPT ![c] =
                     [@ EXCEPT !.pc = IF rest = << >> THEN "setRepoRev" ELSE "handing",
                               !.records = rest,
                               !.handed = @ \o p.adds]]
               /\ UNCHANGED repoRev

\* one round of the second loop, the queues apart
HandOver(c) ==
    /\ handOver(c)
    /\ UNCHANGED << queueVars, engineVars, outerVars, remote >>

\* Database.setRepoRev
setRepoRev(did, rev) == repoRev' = [repoRev EXCEPT ![did] = rev]

\* the upsert of the rev is executed and processRepo returns
SetRev(c) ==
    /\ crawls[c].pc = "setRepoRev"
    /\ setRepoRev(crawls[c].did, crawls[c].commit)
    /\ crawls' = [crawls EXCEPT ![c].pc = "done"]
    /\ UNCHANGED << queueVars, engineVars, outerVars, remote >>

\* the owner of a repository commits: the rev it serves moves on
RemoteCommit(did) ==
    /\ \E i \in 1..(Len(Tids) - 1) :
         /\ remote[did].rev = Tids[i]
         /\ remote' = [remote EXCEPT ![did].rev = Tids[i + 1]]
    /\ UNCHANGED << queueVars, engineVars, outerVars, repoRev, crawls >>

\* the collections processRepo is called with for a did
collectionsFor(did) == IF did = userDid THEN ownCollections ELSE defaultCollections

\* the constant queue next to a Backfill that is looked at on its own
QueueAside ==
    /\ _hard = 1
    /\ _soft = undefined
    /\ _maxQueueSize = 0
    /\ QueueConstructed

\* one crawl of one repository, over every repository of up to MaxEntries
\* records and every stored rev
InitRepoWalk ==
    /\ QueueAside
    /\ NoRequests
    /\ NoEngine
    /\ \E rev \in {noRev, << 2 >>, << 1, 2 >>} : repoRev = [d \in Dids |-> rev]
    /\ \E car \in Cars(MaxEntries) :
         remote = [d \in Dids |-> [rev |-> Tids[3], car |-> car]]
    /\ crawls = [c \in CrawlIds |-> idleCrawl]

NextRepoWalk ==
    \/ \E did \in Dids : Begin(1, did, collectionsFor(did))
    \/ GotRev(1)
    \/ Fetched(1)
    \/ HandOver(1)
    \/ SetRev(1)

SpecRepoWalk == InitRepoWalk /\ [][NextRepoWalk]_vars

\* repositories served while several crawls run
SmallCars ==
    { << >>,
      << [collection |-> 3, rkey |-> << 1, 1 >>, shape |-> "valid"],
         [collection |-> 4, rkey |-> << 1, 2 >>, shape |-> "valid"] >>,
      << [collection |-> 3, rkey |-> << 1, 2 >>, shape |-> "undecodable"] >> }

InitRepoCrawls ==
    /\ QueueAside
    /\ NoRequests
    /\ NoEngine
    /\ repoRev = [d \in Dids |-> noRev]
    /\ \E car \in SmallCars :
         remote = [d \in Dids |-> [rev |-> Tids[1], car |-> car]]
    /\ crawls = [c \in CrawlIds |-> idleCrawl]

NextRepoCrawls ==
    \/ \E c \in CrawlIds, did \in Dids : Begin(c, did, collectionsFor(did))
    \/ \E c \in CrawlIds : GotRev(c)
    \/ \E c \in CrawlIds : Fetched(c)
    \/ \E c \in CrawlIds : HandOver(c)
    \/ \E c \in CrawlIds : SetRev(c)
    \/ \E did \in Dids : RemoteCommit(did)

SpecRepoCrawls == InitRepoCrawls /\ [][NextRepoCrawls]_vars

\* the parameter collections of processRepo was not passed
noCollections == {"undefined"}

collectionsOrDefault_own(collections) ==
    IF collections = noCollections THEN ownCollections ELSE collections

\* collections: ReadonlySet<string> = new Set([post, repost])
collectionsOrDefault(collections) ==
    IF collections = noCollections THEN defaultCollections ELSE collections

\* the tuples passed to repoQueue.add so far: the did of record.subject, and
\* no collections
repoQueueAdds ==
    UNION { { [c |-> c, i |-> i, did |-> crawls[c].handed[i].did,
               collections |-> noCollections] :
                i \in { j \in DOMAIN crawls[c].handed :
                          crawls[c].handed[j].queue = "repoQueue" } } :
            c \in CrawlIds }

\* the processRepo calls that were made by the repo queue for a did
repoTasks(did) ==
    { c \in CrawlIds \ {1} : crawls[c].pc # "idle" /\ crawls[c].did = did }

\* backfill() calls processRepo for the user's repository
BackfillRepo == Begin(1, userDid, collectionsOrDefault(ownCollections))

\* the repo queue starts a tuple: its function calls
\* processRepo(did, collections) with the tuple
RepoTask(c) ==
    /\ c # 1
    /\ \E t \in repoQueueAdds :
          /\ Cardinality({ a \in repoQueueAdds : a.did = t.did })
                > Cardinality(repoTasks(t.did))
          /\ Begin(c, t.did, collectionsOrDefault(t.collections))

\* the repository every account of the model serves, drawn from every
\* repository of up to MaxEntries records; nothing is stored yet
InitFollows ==
    /\ QueueAside
    /\ NoRequests
    /\ NoEngine
    /\ repoRev = [d \in Dids |-> noRev]
    /\ \E car \in Cars(MaxEntries) :
         remote = [d \in Dids |-> [rev |-> Tids[3], car |-> car]]
    /\ crawls = [c \in CrawlIds |-> idleCrawl]

NextFollows ==
    \/ BackfillRepo
    \/ \E c \in CrawlIds : RepoTask(c)
    \/ \E c \in CrawlIds : GotRev(c)
    \/ \E c \in CrawlIds : Fetched(c)
    \/ \E c \in CrawlIds : HandOver(c)
    \/ \E c \in CrawlIds : SetRev(c)

SpecFollows == InitFollows /\ [][NextFollows]_vars

(* ---------------- properties of processRepo ---------------- *)

\* the at-uri the first loop builds for an entry
uriOf(did, e) == [repo |-> did, collection |-> Collections[e.collection], rkey |-> e.rkey]

\* the entries of the repository of crawl c that its collections select and
\* whose record is of the schema
selectedEntries(c) ==
    { e \in Range(remote[crawls[c].did].car) :
        /\ Collections[e.collection] \in crawls[c].collections
        /\ Collections[e.collection] \in processorKeys
        /\ e.shape = "valid" }

\* the records whose processor has added to a queue in crawl c
handedFrom(c) == { crawls[c].handed[i].from : i \in 1..Len(crawls[c].handed) }

\* crawl c has read a stored rev that is a TID
hasTidRev(c) ==
    /\ crawls[c].pc \notin {"idle", "getRepoRev"}
    /\ crawls[c].rev # noRev /\ isTid(crawls[c].rev)

\* the second loop of crawl c has ended without a throw
allHanded(c) == crawls[c].pc \in {"setRepoRev", "done"}

\* C14: in a crawl of a repository that is not the user's, with a stored rev
\* that is a TID, no record with rkey < rev is handed to a queue, only posts
\* and reposts are, and once the second loop has ended every selected record
\* with rkey >= rev has been handed.
C14_ForeignRepoSinceRev ==
    \A c \in CrawlIds :
        (hasTidRev(c) /\ crawls[c].did # userDid) =>
            /\ \A u \in handedFrom(c) :
                 /\ ~lexLess(u.rkey, crawls[c].rev)
                 /\ u.collection \in defaultCollections
            /\ allHanded(c) =>
                 \A e \in selectedEntries(c) :
                     ~lexLess(e.rkey, crawls[c].rev) =>
                         uriOf(crawls[c].did, e) \in handedFrom(c)

\* a crawl of another repository has ended; it skipped a post older than the
\* rev and handed a later one
C14_Witness ==
    \E c \in CrawlIds :
        /\ hasTidRev(c) /\ crawls[c].did # userDid /\ crawls[c].pc = "done"
        /\ \E e \in selectedEntries(c) : lexLess(e.rkey, crawls[c].rev)
        /\ \E e \in selectedEntries(c) :
             /\ ~lexLess(e.rkey, crawls[c].rev)
             /\ uriOf(crawls[c].did, e) \in handedFrom(c)

\* C15: in a crawl of the user's repository with a stored rev that is a TID,
\* once the second loop has ended every follow record has put its subject on
\* the repo queue whatever its rkey, every post, repost and like with
\* rkey >= rev has been handed, also those that come after a skipped record,
\* and no post, repost or like with rkey < rev is ever handed.
C15_OwnRepoFollowsAlways ==
    \A c \in CrawlIds :
        (hasTidRev(c) /\ crawls[c].did = userDid) =>
            /\ \A u \in handedFrom(c) :
                 u.collection # "app.bsky.graph.follow" => ~lexLess(u.rkey, crawls[c].rev)
            /\ allHanded(c) =>
                 \A e \in selectedEntries(c) :
                     \/ /\ Collections[e.collection] # "app.bsky.graph.follow"
                        /\ lexLess(e.rkey, crawls[c].rev)
                     \/ \E i \in 1..Len(crawls[c].handed) :
                          /\ crawls[c].handed[i].from = uriOf(userDid, e)
                          /\ Collections[e.collection] = "app.bsky.graph.follow" =>
                               /\ crawls[c].handed[i].queue = "repoQueue"
                               /\ crawls[c].handed[i].did = subject("app.bsky.graph.follow")

\* a crawl of the user's repository has ended; it skipped a like older than
\* the rev and then handed a follow that is older than the rev too
C15_Witness ==
    \E c \in CrawlIds :
        /\ hasTidRev(c) /\ crawls[c].did = userDid /\ crawls[c].pc = "done"
        /\ \E e, f \in selectedEntries(c) :
             /\ Collections[e.collection] = "app.bsky.feed.like"
             /\ lexLess(e.rkey, crawls[c].rev)
             /\ uriOf(userDid, e) \notin handedFrom(c)
             /\ Collections[f.collection] = "app.bsky.graph.follow"
             /\ lexLess(f.rkey, crawls[c].rev)
             /\ uriOf(userDid, f) \in handedFrom(c)

\* the records the first loop of crawl c kept, as the entries they come from
keptEntries(c) ==
    { e \in selectedEntries(c) :
        ~skip(crawls[c].rev, e.rkey, crawls[c].did = userDid, Collections[e.collection]) }

\* crawl c takes the step into its catch block
Fails(c) == crawls[c].pc \notin {"failed"} /\ crawls'[c].pc = "failed"

\* C16: the rev of a did changes only in the last step of a crawl of that did
\* whose second loop has ended with every kept record handed to a queue, and
\* it becomes the rev of the commit that crawl fetched; a crawl that fails
\* (query, archive, decoding) ends in its catch block with every stored rev
\* and every other crawl as they were.
C16_RevAfterHandOver ==
    [][ /\ \A did \in Dids :
             repoRev'[did] # repoRev[did] =>
                 \E c \in CrawlIds :
                     /\ crawls[c].did = did
                     /\ crawls[c].pc = "setRepoRev" /\ crawls'[c].pc = "done"
                     /\ repoRev'[did] = crawls[c].commit
                     /\ crawls[c].records = << >>
                     /\ \A e \in keptEntries(c) : uriOf(did, e) \in handedFrom(c)
        /\ \A c \in CrawlIds :
             Fails(c) =>
                 /\ repoRev' = repoRev
                 /\ \A b \in CrawlIds \ {c} : crawls'[b] = crawls[b]
      ]_vars

\* one crawl has failed, and a crawl has handed two records and then written
\* the rev of its commit
C16_Witness ==
    \E c, b \in CrawlIds :
        /\ crawls[c].pc = "failed"
        /\ repoRev[crawls[c].did] = noRev
        /\ crawls[b].pc = "done" /\ Len(crawls[b].handed) = 2
        /\ repoRev[crawls[b].did] = crawls[b].commit

\* C17: the rev stored for a did never decreases in lexicographic order
C17_RevNeverDecreases ==
    [][ \A did \in Dids : ~lexLess(repoRev'[did], repoRev[did]) ]_vars

\* C36: a did is passed to the repo queue only by a follow record of the
\* user's own repository, handed over by the crawl backfill() starts; a
\* crawl the repo queue starts selects posts and reposts only, so what it
\* hands over comes from post and repost records and goes to the post queue.
C36_FollowsOneHop ==
    \A c \in CrawlIds : \A i \in DOMAIN crawls[c].handed :
        LET a == crawls[c].handed[i]
        IN /\ a.queue = "repoQueue" =>
                /\ c = 1
                /\ crawls[c].did = userDid
                /\ a.from.repo = userDid
                /\ a.from.collection = "app.bsky.graph.follow"
           /\ c # 1 =>
                /\ crawls[c].collections = defaultCollections
                /\ a.queue = "postQueue"
                /\ a.from.collection \in {"app.bsky.feed.post", "app.bsky.feed.repost"}

\* the crawl of a followed repository that holds a follow record and a post
\* has handed over the post alone and has ended
C36_Witness ==
    \E c \in CrawlIds \ {1} :
        /\ crawls[c].pc = "done"
        /\ crawls[c].did # userDid
        /\ \E k \in DOMAIN remote[crawls[c].did].car :
              /\ Collections[remote[crawls[c].did].car[k].collection] = "app.bsky.graph.follow"
              /\ remote[crawls[c].did].car[k].shape = "valid"
        /\ Len(crawls[c].handed) = 1
        /\ crawls[c].handed[1].from.collection = "app.bsky.feed.post"

(* ---------------- Backfill.processPost behind Backfill.postQueue -------- *)

\* record.text of the posts of the model: the post of the followed account
\* has no text
textOf(uri) == IF uri.repo = "did:plc:followed" THEN "" ELSE "text"

\* no uri: record.reply, the quoted record or a reply in a thread is missing
noUri == [repo |-> "none", collection |-> "none", rkey |-> << >>]

\* what processPost reads of a post record: whether createdAt parses, the
\* text, the uri of a quoted record, the uri of reply.parent and reply.root
\* (a reply to the root of its thread)
Records(uri) ==
    { r \in [createdAt : BOOLEAN, text : {textOf(uri)},
             quoted : {noUri, linked(uri)},
             reply : {noUri, linked(uri)}] :
        ~r.createdAt => (r.quoted = noUri /\ r.reply = noUri) }

\* what processPost reads of a thread view: whether the view of the quoted
\* record holds a post record, the kind of threadView.parent (the parent is
\* the one ancestor), and the one reply with the kind of its element
ThreadViews(uri, quoted, reply) ==
    { t \in [quotedRecordView : BOOLEAN,
             parent : {"none", "threadViewPost", "threadViewPost, invalid record",
                       "blockedPost", "notFoundPost"},
             reply : {noUri, linked(uri)},
             replyRecord : BOOLEAN] :
        /\ quoted = noUri => ~t.quotedRecordView
        /\ reply = noUri <=> t.parent = "none"
        /\ t.reply = noUri => ~t.replyRecord }

\* how fetchPost can settle: what processPost gets, and whether it came with
\* the thread view
FetchOutcomes ==
    { [got |-> fetchPost(thread, rec), threadView |-> thread = "threadViewPost"] :
        thread \in ThreadOutcomes, rec \in RecordOutcomes }

\* threadView is undefined
noThreadView == [absent |-> TRUE]

\* depth > this.maxDepth
tooDeep_never(depth) == FALSE

tooDeep(depth) == depth > maxDepth

\* the Post object built from the record and the inclusion; depth is history
Post_noContext(uri, depth, record, inclusion) ==
    [uri |-> uri, text |-> record.text, inclusionReason |-> inclusion.reason,
     depth |-> depth]

Post(uri, depth, record, inclusion) ==
    IF "context" \in DOMAIN inclusion
    THEN [uri |-> uri, text |-> record.text, inclusionReason |-> inclusion.reason,
          inclusionContext |-> inclusion.context, depth |-> depth]
    ELSE [uri |-> uri, text |-> record.text, inclusionReason |-> inclusion.reason,
          depth |-> depth]

\* queueWritePost with the synchronous part of the writePosts it may call:
\* the buffer and the batches waiting for insertPosts afterwards
queueWritePost(row) ==
    LET pushed == Append(toWrite, row)
    IN IF Len(pushed) > WRITE_POSTS_BATCH_SIZE
       THEN [toWrite |-> SubSeq(pushed, WRITE_POSTS_BATCH_SIZE + 1, Len(pushed)),
             writes |-> Append(writes, [posts |-> SubSeq(pushed, 1, WRITE_POSTS_BATCH_SIZE),
                                        awaited |-> FALSE])]
       ELSE [toWrite |-> pushed, writes |-> writes]

\* one `void this.postQueue.add / prepend(uri, { depth, record, inclusion })`
request(m, uri, depth, record, inclusion) ==
    [m |-> m, uri |-> uri, depth |-> depth, record |-> record, inclusion |-> inclusion]

\* lines 323-350: the quoted record
quotedRequests(c, record, threadView) ==
    IF record.quoted = noUri THEN << >>
    ELSE IF threadView # noThreadView /\ threadView.quotedRecordView
    THEN << request("prepend", record.quoted, c.depth + 1, TRUE,
                    [reason |-> "quoted_by", context |-> c.uri]) >>
    ELSE << request("add", record.quoted, c.depth + 1, FALSE,
                    [reason |-> "quoted_by", context |-> c.uri]) >>

\* lines 385-399: no thread view
fallbackRequests(c, reply) ==
    IF reply = noUri THEN << >>
    ELSE << request("add", reply, c.depth + 1, FALSE,
                    [reason |-> "ancestor_of", context |-> c.uri]),
            request("add", reply, c.depth + 1, FALSE,
                    [reason |-> "ancestor_of", context |-> c.uri]) >>

\* lines 402-438: the ancestors, then processPostReplies
threadRequests(c, reply, threadView) ==
    ( IF reply = noUri \/ threadView.parent \in {"none", "notFoundPost"} THEN << >>
      ELSE IF threadView.parent = "blockedPost"
      THEN << request("add", reply, c.depth + 1, FALSE,
                      [reason |-> "ancestor_of", context |-> c.uri]) >>
      ELSE << request("prepend", reply, c.depth + 1,
                      threadView.parent = "threadViewPost",
                      [reason |-> "ancestor_of", context |-> c.uri]) >> )
    \o
    ( IF threadView.reply = noUri THEN << >>
      ELSE << request("prepend", threadView.reply, c.depth + 1, threadView.replyRecord,
                      [reason |-> "descendant_of", context |-> c.uri]) >> )

\* lines 284-439 up to the await of the thread, for a record and the thread
\* view fetchPost gave (or none): the row buffered, the requests made, and
\* where the call stands afterwards
process(c, record, threadView) ==
    IF ~record.createdAt
    THEN [rows |-> << >>, requests |-> << >>, pc |-> "returned"]
    ELSE LET rows == << Post(c.uri, c.depth, record, c.inclusion) >>
             quoted == quotedRequests(c, record, threadView)
         IN IF c.inclusion.reason = "descendant_of"
            THEN [rows |-> rows, requests |-> quoted, pc |-> "returned"]
            ELSE IF record.reply # noUri /\ c.inclusion.reason = "ancestor_of"
            THEN [rows |-> rows, requests |-> quoted, pc |-> "returned"]
            ELSE IF record.reply # noUri /\ c.depth + 1 < maxDepth
            THEN [rows |-> rows,
                  requests |-> quoted \o
                      << request("add", record.reply, c.depth + 1, FALSE,
                                 [reason |-> "ancestor_of", context |-> c.uri]) >>,
                  pc |-> "returned"]
            ELSE IF threadView = noThreadView
            THEN [rows |-> rows, requests |-> quoted, pc |-> "getPostThread"]
            ELSE [rows |-> rows,
                  requests |-> quoted \o threadRequests(c, record.reply, threadView),
                  pc |-> "returned"]

\* the name the next tuple passed to the post queue gets
nextCall(S) == CHOOSE id \in Calls : S.pc[id] = "idle" /\ \A j \in 1..(id - 1) : S.pc[j] # "idle"

\* tuples that can still be passed to the post queue
free(S) == Cardinality({id \in Calls : S.pc[id] = "idle"})

\* the queue, the calls and the counters a job of Backfill works on
Engine == [S |-> Cur, calls |-> calls, method |-> method, queued |-> queuedEvents]

RECURSIVE enqueueAll(_, _)
\* the requests of one job in order: each is add / prepend up to its return
\* (the queue is far from maxQueueSize, so none waits for space)
enqueueAll(E, requests) ==
    IF requests = << >> THEN E
    ELSE LET r == Head(requests)
             id == nextCall(E.S)
             S == [E.S EXCEPT !.waitingAtCall[id] =
                                  IF r.m = "prepend" THEN Tickets(E.S.queue) ELSE {}]
         IN enqueueAll([S |-> enqueue(S, id, r.m),
                        calls |-> [E.calls EXCEPT ![id] =
                                     [pc |-> "queued", uri |-> r.uri, depth |-> r.depth,
                                      record |-> r.record, inclusion |-> r.inclusion,
                                      reply |-> noUri]],
                        method |-> [E.method EXCEPT ![id] = r.m],
                        queued |-> E.queued + 1],
                       Tail(requests))

\* the queue and the calls after a job
CommitEngine(Done) ==
    \E E \in {Done} :
        /\ Commit(E.S)
        /\ calls' = E.calls
        /\ method' = E.method
        /\ queuedEvents' = E.queued

\* lines 284-439 for call id: seenPosts.add, the row, the requests
Process(id, record, threadView) ==
    \E p \in {process(calls[id], record, threadView)} :
       /\ Len(p.requests) <= free(Cur)
       /\ seenPosts' = seenPosts \cup {calls[id].uri}
       /\ IF p.rows = << >>
          THEN UNCHANGED << toWrite, writes, buffered >>
          ELSE \E w \in {queueWritePost(p.rows[1])} :
               /\ toWrite' = w.toWrite
               /\ writes' = w.writes
               /\ buffered' = [buffered EXCEPT ![calls[id].uri] = @ + 1]
       /\ CommitEngine(enqueueAll(
              [Engine EXCEPT !.calls[id] =
                   IF p.pc = "returned" THEN returned
                   ELSE [@ EXCEPT !.pc = p.pc, !.reply = record.reply]],
              p.requests))

\* the call returns without doing anything
Return(id) ==
    /\ calls' = [calls EXCEPT ![id] = returned]
    /\ UNCHANGED << queueVars, seenPosts, toWrite, writes, buffered >>

\* void this.postQueue.add(uri, { record, inclusion }) of a processor: the
\* record is passed along by the processor of posts only
hand(add, collection) ==
    /\ free(Cur) > 0
    /\ CommitEngine(enqueueAll(Engine,
           << request("add", add.uri, 0, collection = "app.bsky.feed.post",
                      add.inclusion) >>))

\* a processor of processRepo passes a record of a crawled repository to the
\* post queue
Handed(did, e) ==
    /\ backfill \in {"off", "processRepo"}
    /\ backfill = "processRepo" => did = userDid
    /\ Collections[e.collection] \in collectionsFor(did) \ {"app.bsky.graph.follow"}
    /\ hand(processors(recordOf(did, e)).adds[1], Collections[e.collection])
    /\ UNCHANGED << config, processAllState, completedEvents, errorEvents, failures,
                    repoVars, outerVars, seenPosts, toWrite, writes, post, buffered,
                    embeddingsEnabled, embeddingsQueue, backfill >>

\* Promise.resolve().then(() => this._fn(...args)): processPost is called and
\* runs to its first await or to its return; the record handed along is one
\* of records(uri)
RunOn(e, records(_)) ==
    /\ e \in execs
    /\ e.phase = "running"
    /\ calls[e.args].pc = "queued"
    /\ LET c == calls[e.args]
       IN IF tooDeep(c.depth)
          THEN /\ calls' = [calls EXCEPT ![e.args] = stopped]
               /\ UNCHANGED << queueVars, seenPosts, toWrite, writes, buffered >>
          ELSE IF c.uri \in seenPosts
          THEN Return(e.args)
          ELSE IF ~c.record
          THEN /\ calls' = [calls EXCEPT ![e.args].pc = "fetchPost"]
               /\ UNCHANGED << queueVars, seenPosts, toWrite, writes, buffered >>
          ELSE /\ \E record \in records(c.uri) : Process(e.args, record, noThreadView)
               /\ UNCHANGED << config, processAllState, completedEvents, errorEvents,
                               failures >>
    /\ UNCHANGED << repoVars, outerVars, post, embeddingsEnabled, embeddingsQueue, backfill >>

Run(e) == RunOn(e, Records)

\* fetchPost settles: the continuation of the await in processPost; the
\* record it gives is one of records(uri), the thread view one of
\* threadViews(uri, quoted, reply), and valid tells whether the record in a
\* view is a post record
FetchedPostOn(e, out, records(_), threadViews(_, _, _), valid) ==
    /\ e \in execs
    /\ calls[e.args].pc = "fetchPost"
    /\ IF out.got = "TimeoutError"
       THEN /\ calls' = [calls EXCEPT ![e.args] = threw]
            /\ UNCHANGED << queueVars, seenPosts, toWrite, writes, buffered >>
       ELSE IF out.got # "record"
       THEN Return(e.args)
       ELSE \/ /\ out.threadView                  \* a view with an invalid record
               /\ FALSE \in valid
               /\ Return(e.args)
            \/ /\ TRUE \in valid
               /\ \E record \in records(calls[e.args].uri) :
                    \E threadView \in
                         IF out.threadView
                         THEN threadViews(calls[e.args].uri, record.quoted, record.reply)
                         ELSE {noThreadView} :
                       Process(e.args, record, threadView)
               /\ UNCHANGED << config, processAllState, completedEvents,
                               errorEvents, failures >>
    /\ UNCHANGED << repoVars, outerVars, post, embeddingsEnabled, embeddingsQueue, backfill >>

FetchedPost(e, out) == FetchedPostOn(e, out, Records, ThreadViews, BOOLEAN)

\* the thread views of a post, or none: the query failed
ThreadViewsOrNone(uri, quoted, reply) ==
    ThreadViews(uri, quoted, reply) \cup {noThreadView}

\* the getPostThread query of line 376 settles with one of
\* threadViews(uri, quoted, reply)
GotThreadOn(e, threadViews(_, _, _)) ==
    /\ e \in execs
    /\ calls[e.args].pc = "getPostThread"
    /\ \E threadView \in threadViews(calls[e.args].uri, noUri, calls[e.args].reply) :
       LET c == calls[e.args]
           requests == IF threadView = noThreadView THEN fallbackRequests(c, c.reply)
                       ELSE threadRequests(c, c.reply, threadView)
       IN /\ Len(requests) <= free(Cur)
          /\ CommitEngine(enqueueAll([Engine EXCEPT !.calls[e.args] = returned],
                                     requests))
    /\ UNCHANGED << config, processAllState, completedEvents, errorEvents, failures,
                    repoVars, outerVars, seenPosts, toWrite, writes, post, buffered,
                    embeddingsEnabled, embeddingsQueue, backfill >>

GotThread(e) == GotThreadOn(e, ThreadViewsOrNone)

\* processPost has thrown the TimeoutError of fetchPost: the .catch reaction
Thrown(e) ==
    /\ calls[e.args].pc = "threw"
    /\ Reject(e, "TimeoutError")

\* processPost has returned or thrown: the .finally reaction
Settled(e) ==
    /\ \/ calls[e.args].pc = "returned"
       \/ e.phase = "settled"
    /\ Finally(e)

(* ---------------- Database.insertPosts, writePosts, embeddings ---------- *)

\* the values of one row of the insert: post.embedding ? formatVector(..) : null
excluded(p) ==
    [text |-> p.text,
     embedding |-> IF "embedding" \in DOMAIN p THEN p.embedding ELSE "null",
     altTextEmbedding |-> IF "altTextEmbedding" \in DOMAIN p THEN p.altTextEmbedding
                          ELSE "null",
     inclusionReason |-> p.inclusionReason,
     inclusionContext |-> IF "inclusionContext" \in DOMAIN p THEN "set" ELSE "null"]

RECURSIVE insertPosts(_, _)
\* insert ... on conflict do update set every column to its excluded value
insertPosts(table, posts) ==
    IF posts = << >> THEN table
    ELSE insertPosts([table EXCEPT ![Head(posts).uri] = excluded(Head(posts))],
                     Tail(posts))

\* what generateEmbeddings reads of the posts of a batch
texts(batch) == [k \in DOMAIN batch |-> [uri |-> batch[k].uri, text |-> batch[k].text]]

\* this.embeddingsQueue.add(batch) on a queue of hardConcurrency 1 without
\* softConcurrency and maxQueueSize: push, then _drain starts the head when
\* nothing runs
embeddingsAdd(q, batch) ==
    IF q.running = << >>
    THEN [q EXCEPT !.running = << [posts |-> texts(batch), pc |-> "started"] >>]
    ELSE [q EXCEPT !.queue = Append(@, texts(batch))]

\* insertPosts of a batch answers (a rejection is logged): the rest of the
\* round of the loop of writePosts and the next test of the loop
Inserted(i, ok) ==
    /\ i \in DOMAIN writes
    /\ post' = IF ok THEN insertPosts(post, writes[i].posts) ELSE post
    /\ embeddingsQueue' = IF embeddingsEnabled
                          THEN embeddingsAdd(embeddingsQueue, writes[i].posts)
                          ELSE embeddingsQueue
    /\ LET others == SubSeq(writes, 1, i - 1) \o SubSeq(writes, i + 1, Len(writes))
           n == IF Len(toWrite) < WRITE_POSTS_BATCH_SIZE THEN Len(toWrite)
                ELSE WRITE_POSTS_BATCH_SIZE
       IN IF Len(toWrite) > 0
          THEN /\ writes' = Append(others, [posts |-> SubSeq(toWrite, 1, n),
                                            awaited |-> writes[i].awaited])
               /\ toWrite' = SubSeq(toWrite, n + 1, Len(toWrite))
               /\ UNCHANGED backfill
          ELSE /\ writes' = others
               /\ UNCHANGED toWrite
               /\ backfill' = IF writes[i].awaited THEN "returned" ELSE backfill
    /\ UNCHANGED << queueVars, repoVars, outerVars, calls, seenPosts, buffered, embeddingsEnabled >>

\* the embeddings queue calls generateEmbeddings: up to the await
EmbeddingsRun ==
    /\ embeddingsQueue.running # << >>
    /\ embeddingsQueue.running[1].pc = "started"
    /\ embeddingsQueue' = [embeddingsQueue EXCEPT !.running[1].pc = "extractEmbeddings"]
    /\ UNCHANGED << queueVars, repoVars, outerVars, calls, seenPosts, toWrite, writes, post,
                    buffered, embeddingsEnabled, backfill >>

\* the vector computed for a text
vector(text) == "vector"

\* extractEmbeddings settles: the vectors are assigned to the posts that have
\* a text, or the error is logged; generateEmbeddings returns
Extracted(ok) ==
    /\ embeddingsQueue.running # << >>
    /\ embeddingsQueue.running[1].pc = "extractEmbeddings"
    /\ LET posts == embeddingsQueue.running[1].posts
           assigned == [k \in DOMAIN posts |->
                          IF ok /\ posts[k].text # ""
                          THEN posts[k] @@ [embedding |-> vector(posts[k].text)]
                          ELSE posts[k]]
       IN embeddingsQueue' = [embeddingsQueue EXCEPT
                                !.running[1] = [posts |-> assigned, pc |-> "returned"]]
    /\ UNCHANGED << queueVars, repoVars, outerVars, calls, seenPosts, toWrite, writes, post,
                    buffered, embeddingsEnabled, backfill >>

\* the .finally reaction of the embeddings queue: emit("completed"), _drain()
EmbeddingsSettled ==
    /\ embeddingsQueue.running # << >>
    /\ embeddingsQueue.running[1].pc = "returned"
    /\ LET q == embeddingsQueue
           left == [q EXCEPT !.running = << >>,
                             !.embedded = @ \cup
                                 { p.uri : p \in { r \in Range(q.running[1].posts) :
                                                     "embedding" \in DOMAIN r } }]
           drained == IF q.queue = << >> THEN left
                      ELSE [left EXCEPT !.queue = Tail(@),
                                        !.running = << [posts |-> Head(q.queue),
                                                        pc |-> "started"] >>]
       IN embeddingsQueue' =
              [drained EXCEPT !.processAll = onDone(@, left.queue, Len(left.running))]
    /\ UNCHANGED << queueVars, repoVars, outerVars, calls, seenPosts, toWrite, writes, post,
                    buffered, embeddingsEnabled, backfill >>

(* ---------------- Backfill.backfill ---------------- *)

\* this.repoQueue.size for a user who follows nobody
repoQueueSize == Len(<< >>)

\* `while (q.size > 0) await q.processAll()` is entered or skipped
innerLoop(size, running) ==
    IF size > 0 THEN onDone("pending", << 1 >>, running) ELSE "idle"

\* an inner loop has ended
innerDone(state) == state \in {"idle", "resolved"}

\* the test of the outer loop of backfill(), after processRepo of the user's
\* repository or after Promise.allSettled: another round, or writePosts
BackfillLoop ==
    /\ \/ backfill = "processRepo"
       \/ /\ backfill = "allSettled"
          /\ innerDone(processAllState)
          /\ innerDone(embeddingsQueue.processAll)
    /\ IF repoQueueSize > 0 \/ Len(_queue) > 0 \/ Len(embeddingsQueue.queue) > 0
       THEN /\ backfill' = "allSettled"
            /\ processAllState' = innerLoop(Len(_queue), _running)
            /\ embeddingsQueue' =
                   [embeddingsQueue EXCEPT !.processAll =
                       IF embeddingsEnabled
                       THEN innerLoop(Len(embeddingsQueue.queue),
                                      Len(embeddingsQueue.running))
                       ELSE "idle"]
            /\ UNCHANGED << toWrite, writes >>
       ELSE /\ processAllState' = "idle"
            /\ embeddingsQueue' = [embeddingsQueue EXCEPT !.processAll = "idle"]
            /\ IF Len(toWrite) > 0
               THEN LET n == IF Len(toWrite) < WRITE_POSTS_BATCH_SIZE THEN Len(toWrite)
                             ELSE WRITE_POSTS_BATCH_SIZE
                    IN /\ writes' = Append(writes, [posts |-> SubSeq(toWrite, 1, n),
                                                    awaited |-> TRUE])
                       /\ toWrite' = SubSeq(toWrite, n + 1, Len(toWrite))
                       /\ backfill' = "writePosts"
               ELSE /\ backfill' = "returned"
                    /\ UNCHANGED << toWrite, writes >>
    /\ UNCHANGED << config, _queue, _active, _running, promisesWaitingForSpace, pc,
                    method, execs, queuedEvents, completedEvents, errorEvents, failures,
                    entered, starts, waitingAtCall, waitingAtInsert, repoVars, outerVars, calls,
                    seenPosts, post, buffered, embeddingsEnabled >>

\* the records a processor passes on in the engine specifications
HandedEntries ==
    { e \in Entries : e.rkey = << 1, 1 >> /\ e.shape = "valid" }

\* the post queue of Backfill, scaled: as many tasks as MaxSoft until they
\* are slow, MaxHard at most; maxQueueSize is never reached
PostQueueConstructed ==
    /\ _hard = MaxHard
    /\ _soft = MaxSoft
    /\ _maxQueueSize = 100000
    /\ QueueConstructed

EngineConstructed ==
    /\ NoRequests
    /\ calls = [id \in Calls |-> noCall]
    /\ seenPosts = {}
    /\ toWrite = << >>
    /\ writes = << >>
    /\ post = [uri \in PostUris |-> noRow]
    /\ buffered = [uri \in PostUris |-> 0]
    /\ embeddingsQueue = [queue |-> << >>, running |-> << >>, embedded |-> {},
                          processAll |-> "idle"]
    /\ repoRev = [did \in Dids |-> noRev]
    /\ remote = [did \in Dids |-> [rev |-> noRev, car |-> << >>]]
    /\ crawls = [c \in CrawlIds |-> idleCrawl]

\* the post queue and its processPost calls, embeddings disabled
InitPosts ==
    /\ PostQueueConstructed
    /\ EngineConstructed
    /\ embeddingsEnabled = FALSE
    /\ backfill = "off"

\* the jobs of processPost and of the post queue around it
NextProcessPost ==
    \/ \E e \in execs : Run(e)
    \/ \E e \in execs, out \in FetchOutcomes : FetchedPost(e, out)
    \/ \E e \in execs : GotThread(e)
    \/ \E e \in execs : Thrown(e)
    \/ \E e \in execs : Settled(e)
    \/ \E e \in execs : SoftTimeout(e)
    \/ \E i \in DOMAIN writes, ok \in BOOLEAN : Inserted(i, ok)

NextPosts ==
    \/ \E did \in Dids, e \in HandedEntries : Handed(did, e)
    \/ NextProcessPost

SpecPosts == InitPosts /\ [][NextPosts]_vars

\* a post queue that takes one task at a time
PostQueueInTurn ==
    /\ _hard = 1
    /\ _soft = 1
    /\ _maxQueueSize = 100000
    /\ QueueConstructed

InitPostsInTurn ==
    /\ PostQueueInTurn
    /\ EngineConstructed
    /\ embeddingsEnabled = FALSE
    /\ backfill = "off"

\* the processPost calls one after the other
SpecPostsInTurn == InitPostsInTurn /\ [][NextPosts]_vars

\* backfill() has called processRepo for the user's repository; embeddings
\* are enabled
InitBackfill ==
    /\ PostQueueInTurn
    /\ EngineConstructed
    /\ embeddingsEnabled = TRUE
    /\ backfill = "processRepo"

NextBackfill ==
    \/ \E e \in HandedEntries : Handed(userDid, e)
    \/ NextProcessPost
    \/ EmbeddingsRun
    \/ \E ok \in BOOLEAN : Extracted(ok)
    \/ EmbeddingsSettled
    \/ BackfillLoop

SpecBackfill == InitBackfill /\ [][NextBackfill]_vars

\* rows that an earlier run has left in table post
StoredRows ==
    [text : {"text"}, embedding : {"null", "vector"},
     altTextEmbedding : {"null", "vector"}, inclusionReason : {"self"},
     inclusionContext : {"null"}]

\* batches of posts that writePosts passes to insertPosts
Batches ==
    { << Post(uri, 0, [text |-> textOf(uri)], inclusion) >> :
        uri \in PostUris,
        inclusion \in {[reason |-> "liked_by_self"],
                       [reason |-> "reposted_by", context |-> userDid]} }

\* writePosts has called insertPosts with a batch, on a table of any content
InitInsertPosts ==
    /\ QueueAside
    /\ NoRequests
    /\ calls = [id \in Calls |-> noCall]
    /\ seenPosts = {}
    /\ toWrite = << >>
    /\ \E batch \in Batches : writes = << [posts |-> batch, awaited |-> FALSE] >>
    /\ post \in [PostUris -> StoredRows \cup {noRow}]
    /\ buffered = [uri \in PostUris |-> 0]
    /\ embeddingsQueue = [queue |-> << >>, running |-> << >>, embedded |-> {},
                          processAll |-> "idle"]
    /\ repoRev = [did \in Dids |-> noRev]
    /\ remote = [did \in Dids |-> [rev |-> noRev, car |-> << >>]]
    /\ crawls = [c \in CrawlIds |-> idleCrawl]
    /\ embeddingsEnabled = FALSE
    /\ backfill = "off"

NextInsertPosts == \E i \in DOMAIN writes, ok \in BOOLEAN : Inserted(i, ok)

SpecInsertPosts == InitInsertPosts /\ [][NextInsertPosts]_vars

(* ---------------- properties of processPost ---------------- *)

\* the rows that are buffered or on their way to insertPosts
Rows ==
    Range(toWrite) \cup UNION { Range(writes[i].posts) : i \in DOMAIN writes }

\* the processPost calls that have been called and have not returned
Underway(id) == calls[id].pc \in {"queued", "fetchPost", "getPostThread"}

\* C11: whatever way the processPost calls interleave, queueWritePost is
\* called at most once for a uri.
C11_OneRowPerUri == \A uri \in PostUris : buffered[uri] <= 1

\* C12: a processPost call with depth > maxDepth returns with seenPosts, the
\* buffer, the batches and the post queue as they were; a tuple that a
\* processPost call passes to the post queue carries the depth of that call
\* plus one (a processor passes depth 0); and no row is buffered, and no
\* tuple queued, with a depth above maxDepth + 1.
C12_DepthBounded ==
    /\ [](/\ \A row \in Rows : row.depth <= maxDepth + 1
          /\ \A id \in Calls : Underway(id) => calls[id].depth <= maxDepth + 1)
    /\ [][ /\ \A id \in Calls :
                (/\ calls[id].pc = "queued"
                 /\ calls[id].depth > maxDepth
                 /\ calls'[id] # calls[id])
                => /\ calls'[id].pc = "returned"
                   /\ \A j \in Calls \ {id} : calls'[j] = calls[j]
                   /\ UNCHANGED << seenPosts, toWrite, writes, buffered, _queue,
                                   entered, execs >>
           /\ \A id \in Calls :
                (calls[id] = noCall /\ calls'[id] # noCall)
                => \/ calls'[id].depth = 0 /\ \A j \in Calls \ {id} : calls'[j] = calls[j]
                   \/ \E j \in Calls :
                        /\ Underway(j) /\ calls'[j] # calls[j]
                        /\ calls'[id].depth = calls[j].depth + 1
         ]_vars

\* a call at depth maxDepth + 1 has returned at the test of the depth, and a
\* row of depth maxDepth is buffered
C12_Witness ==
    /\ \E id \in Calls : calls[id] = stopped
    /\ \E row \in Rows : row.depth = maxDepth

\* the reasons that come with a context
WithContext == {"reposted_by", "ancestor_of", "descendant_of", "quoted_by", "linked_by"}

\* the values of PostInclusionReason
PostInclusionReason == WithContext \cup {"self", "liked_by_self", "by_follow"}

\* C13: every row buffered for insertion, and every row of table post, has
\* an inclusion reason, and it has an inclusion context exactly when the
\* reason is reposted_by, ancestor_of, descendant_of, quoted_by or linked_by.
C13_ContextIffReason ==
    /\ \A row \in Rows :
         /\ row.inclusionReason \in PostInclusionReason
         /\ "inclusionContext" \in DOMAIN row <=> row.inclusionReason \in WithContext
    /\ \A uri \in PostUris :
         post[uri] # noRow =>
             /\ post[uri].inclusionReason \in PostInclusionReason
             /\ post[uri].inclusionContext # "null"
                    <=> post[uri].inclusionReason \in WithContext

\* a reposted post is in table post with its context, and a row without
\* context (a post of the crawled repository, or a liked post) is buffered
C13_Witness ==
    /\ \E uri \in PostUris :
         /\ post[uri].inclusionReason \in WithContext
         /\ post[uri].inclusionContext # "null"
    /\ \E row \in Rows :
         /\ row.inclusionReason \in {"self", "liked_by_self", "by_follow"}
         /\ "inclusionContext" \notin DOMAIN row

(* ---------------- properties of backfill(), writePosts, insertPosts ------ *)

\* C18: when backfill() has returned, the post queue and the embeddings
\* queue have an empty waiting list and no running task, nothing is in the
\* write buffer and no insertPosts call is unanswered.
C18_IdleAtReturn ==
    backfill = "returned" =>
        /\ _queue = << >> /\ _running = 0
        /\ embeddingsQueue.queue = << >> /\ embeddingsQueue.running = << >>
        /\ toWrite = << >>
        /\ writes = << >>

\* C19: a post that generateEmbeddings has given a vector, in a task that has
\* completed, has a vector in its row of table post.
C19_VectorsStored ==
    \A uri \in embeddingsQueue.embedded :
        post[uri] # noRow => post[uri].embedding # "null"

\* C20: no step takes a vector that is stored in a row of table post away.
C20_VectorKept ==
    [][ \A uri \in PostUris :
          /\ post[uri].embedding # "null" => post'[uri].embedding # "null"
          /\ post[uri].altTextEmbedding # "null" => post'[uri].altTextEmbedding # "null"
      ]_vars

(* ---------------- XRPCManager ---------------- *)

\* const maxRetries = 5
maxRetries == 5

\* const retryableStatusCodes = new Set([408, 429, 503, 504])
retryableStatusCodes == {408, 429, 503, 504}

\* an error without headers, or whose headers have no rate-limit-reset
noHeader == 0 - 1
\* an error without a numeric status
noStatus == 0
\* what parseInt makes of a rate-limit-reset header: 0 stands for every falsy
\* result (0, NaN), the others are epoch seconds
Resets == {noHeader, 0, 1, 4}
Statuses == {noStatus, 404, 408, 429, 500, 502, 503, 504}

\* a thrown value that is no object
primitive == [name |-> "primitive", marker |-> FALSE, reset |-> noHeader,
              status |-> noStatus]

\* what shouldRetry reads of a thrown object: whether it is a DOMException
\* named AbortError, a TypeError or another object; whether its string has
\* "tcp", "network" or "dns" in it; its rate-limit-reset header; its status
Errors ==
    {primitive} \cup
    [name : {"AbortError", "TypeError", "Error"}, marker : BOOLEAN,
     reset : Resets, status : Statuses]

\* new Error("bridgy unsupported"), new Error("no service endpoint found ...")
plainError == [name |-> "Error", marker |-> FALSE, reset |-> noHeader,
               status |-> noStatus]
noError == [name |-> "none", marker |-> FALSE, reset |-> noHeader,
            status |-> noStatus]
\* an error of the resolver that is no DidNotFoundError
resolverError == [name |-> "ResolverError", marker |-> FALSE, reset |-> noHeader,
                  status |-> noStatus]

RECURSIVE pow(_, _)
\* Math.pow(b, e) for a natural e
pow(b, e) == IF e = 0 THEN 1 ELSE b * pow(b, e - 1)

noSleep == 0 - 1000
rethrow == [retry |-> FALSE, sleep |-> noSleep]

\* a retry that does not wait for the reset
untilReset_noWait(reset, t) == 0

\* the seconds slept for a rate-limit-reset header:
\* sleep(reset * 1000 - Date.now())
untilReset(reset, t) == reset - t

\* the seconds slept for a retryable status: Math.pow(3, attempt + 1)
delay(attempt) == pow(3, attempt + 1)

\* shouldRetry(error, attempt) at time t: whether query tries again, and the
\* seconds it sleeps before (noSleep: it returns without sleeping)
shouldRetry(error, attempt, t) ==
    IF error.name = "primitive" THEN rethrow
    ELSE IF error.marker THEN [retry |-> TRUE, sleep |-> noSleep]
    ELSE IF error.name = "AbortError" THEN rethrow
    ELSE IF error.name = "TypeError" THEN rethrow
    ELSE IF error.reset # noHeader /\ error.reset # 0
        THEN [retry |-> TRUE, sleep |-> untilReset(error.reset, t)]
    ELSE IF attempt >= maxRetries THEN rethrow
    ELSE IF error.status \in retryableStatusCodes
        THEN [retry |-> TRUE, sleep |-> delay(attempt)]
    ELSE rethrow

\* sleep(ms) of node:timers/promises: a delay that is not positive is over at
\* once
sleepFor(seconds) == IF seconds > 0 THEN seconds ELSE 0

QueryIds == 1..MaxQueries
bridgy == "https://atproto.brid.gy"
Services == {"https://pds.example", bridgy}
\* the accounts whose service is asked for
Actors == Dids
\* the value cached for a DID that was not found
null == "null"

\* the operation a caller passes as fn: it rejects with error as many times
\* as failures says, then it fulfils (with an ok response)
okOp == [error |-> noError, failures |-> 0]
Ops == {okOp} \cup [error : Errors, failures : 1..MaxAttempts]

\* a call that has not been made
idleQuery ==
    [ pc |-> "idle", method |-> "none", did |-> null, service |-> null,
      op |-> okOp, attempt |-> 0, calls |-> 0, slept |-> << >>, wake |-> 0,
      error |-> noError, resolves |-> 0 ]

\* a recursion that counts from 0 again
carried_fresh(attempt) == 0

\* query's own recursion keeps the attempt count: this.query(service, fn, attempt)
carried(attempt) == attempt

RECURSIVE queryNoRetry(_, _)
\* the catch block of query for a call Q at time t (queryNoRetry has none):
\* shouldRetry(error, attempt++), then the next query or throw error
caught(Q, error, t) ==
    IF Q.method = "queryNoRetry"
        THEN [Q EXCEPT !.pc = "threw", !.error = error]
    ELSE LET r == shouldRetry(error, Q.attempt, t)
             Q1 == [Q EXCEPT !.attempt = carried(@ + 1)]
         IN  IF ~r.retry THEN [Q1 EXCEPT !.pc = "threw", !.error = error]
             ELSE IF r.sleep = noSleep
                 THEN queryNoRetry([Q1 EXCEPT !.slept = Append(@, noSleep)], t)
             ELSE [Q1 EXCEPT !.pc = "sleeping",
                             !.slept = Append(@, sleepFor(r.sleep)),
                             !.wake = t + sleepFor(r.sleep)]

\* queryNoRetry(service, fn) to its await: fn(client) is called, or the
\* bridgy error is thrown (into the catch block of query)
queryNoRetry(Q, t) ==
    IF Q.service = bridgy THEN caught(Q, plainError, t)
    ELSE [Q EXCEPT !.pc = "fn", !.calls = @ + 1]

\* LruCache of @std/cache, a Map in insertion order: the entries, least
\* recently used first
has(cache, did) == \E i \in DOMAIN cache : cache[i].did = did
get(cache, did) == (CHOOSE i \in DOMAIN cache : cache[i].did = did)
delete(cache, did) == SelectSeq(cache, LAMBDA e : e.did # did)
\* has and get make the entry the most recently used one
touch(cache, did) ==
    IF has(cache, did)
        THEN Append(delete(cache, did), cache[get(cache, did)])
        ELSE cache
\* a cache that answers only with a service, as a test of the cached value
\* for truthiness does
hit_truthy(cache, did) ==
    \E i \in DOMAIN cache : cache[i].did = did /\ cache[i].service # null

\* this.didToServiceCache.has(did)
hit(cache, did) == has(cache, did)


\* the least recently used entry goes when the cache is over maxSize
prune(cache) == IF Len(cache) > MaxCached THEN Tail(cache) ELSE cache

set(cache, did, service) ==
    prune(Append(delete(cache, did), [did |-> did, service |-> service]))

\* what idResolver.did.resolveAtprotoData(did) answers: the pds of the
\* document, a DidNotFoundError or another error
noPds == [origin |-> null, pathname |-> ""]
ResolveOutcomes ==
    [throws : {"none"}, pds : [origin : Services \ {bridgy}, pathname : {"/"}]]
        \cup [throws : {"DidNotFoundError", "Error"}, pds : {noPds}]
\* new URL(pds).origin
origin(pds) == pds.origin

\* one call is settled in one step
commit(q, Q) == queries' = [queries EXCEPT ![q] = Q]

\* the calls are made in the order of their numbers
next(q) == queries[q].pc = "idle" /\ \A j \in QueryIds : j < q => queries[j].pc # "idle"

Aside == UNCHANGED << queueVars, backfillVars, search >>

\* query(service, fn) is called, for one of the services and with an
\* operation that behaves as one of ops
Query(q, services, ops) ==
    /\ next(q)
    /\ \E service \in services, op \in ops :
          commit(q, queryNoRetry([idleQuery EXCEPT !.method = "query",
                                     !.service = service, !.op = op], now))
    /\ UNCHANGED << now, didToServiceCache >>
    /\ Aside

\* queryNoRetry(service, fn) is called
QueryNoRetry(q, services, ops) ==
    /\ next(q)
    /\ \E service \in services, op \in ops :
          commit(q, queryNoRetry([idleQuery EXCEPT !.method = "queryNoRetry",
                                     !.service = service, !.op = op], now))
    /\ UNCHANGED << now, didToServiceCache >>
    /\ Aside

\* after await getServiceForDid(did): the error for a missing service, or
\* query(service, fn)
gotService(Q, service, t) ==
    IF service = null THEN [Q EXCEPT !.pc = "threw", !.error = plainError]
    ELSE queryNoRetry([Q EXCEPT !.method = "query", !.service = service], t)

\* queryByDid(did, fn) is called: getServiceForDid answers from the cache or
\* asks the resolver
QueryByDid(q, did, op) ==
    /\ next(q)
    /\ LET Q == [idleQuery EXCEPT !.method = "queryByDid", !.did = did, !.op = op]
       IN  IF hit(didToServiceCache, did)
             THEN /\ commit(q, gotService(Q, didToServiceCache[get(didToServiceCache, did)].service, now))
                  /\ didToServiceCache' = touch(didToServiceCache, did)
             ELSE /\ commit(q, [Q EXCEPT !.pc = "resolving", !.resolves = @ + 1])
                  /\ UNCHANGED didToServiceCache
    /\ UNCHANGED now
    /\ Aside

\* resolveAtprotoData has answered
Resolved(q, out) ==
    /\ queries[q].pc = "resolving"
    /\ IF out.throws = "Error"
         THEN /\ commit(q, [queries[q] EXCEPT !.pc = "threw", !.error = resolverError])
              /\ UNCHANGED didToServiceCache
         ELSE LET service == IF out.throws = "DidNotFoundError" THEN null
                             ELSE origin(out.pds)
              IN  /\ didToServiceCache' = set(didToServiceCache, queries[q].did, service)
                  /\ commit(q, gotService(queries[q], service, now))
    /\ UNCHANGED now
    /\ Aside

\* fn(client) has settled: ok() throws what it rejected with or an error
\* response, or hands the data on
Settle(q) ==
    /\ queries[q].pc = "fn"
    /\ \E Q \in { IF queries[q].calls <= queries[q].op.failures
                    THEN caught(queries[q], queries[q].op.error, now)
                    ELSE [queries[q] EXCEPT !.pc = "returned"] } :
          /\ Q.calls <= MaxAttempts
          /\ commit(q, Q)
    /\ UNCHANGED << now, didToServiceCache >>
    /\ Aside

\* the sleep of shouldRetry is over: it returns true and query calls itself
WakeUp(q) ==
    /\ queries[q].pc = "sleeping"
    /\ queries[q].calls < MaxAttempts
    /\ now' = IF queries[q].wake > now THEN queries[q].wake ELSE now
    /\ commit(q, queryNoRetry(queries[q], now'))
    /\ UNCHANGED didToServiceCache
    /\ Aside

\* a second passes while an operation is under way
Tick ==
    /\ now < MaxNow
    /\ \E q \in QueryIds : queries[q].pc \in {"fn", "resolving"}
    /\ now' = now + 1
    /\ UNCHANGED << queries, didToServiceCache >>
    /\ Aside

\* a queue that is not used, no Backfill
NoQueue ==
    /\ QueueAside
    /\ NoBackfill

\* one call of query or queryNoRetry, with an operation of any behaviour
InitRetry ==
    /\ NoQueue
    /\ queries = [q \in QueryIds |-> idleQuery]
    /\ now = 1
    /\ didToServiceCache = << >>
    /\ search = << >>

NextRetry ==
    \/ Query(1, Services, Ops)
    \/ QueryNoRetry(1, Services, Ops)
    \/ Settle(1)
    \/ WakeUp(1)
    \/ Tick

SpecRetry == InitRetry /\ [][NextRetry]_vars

\* operations of a few behaviours: one that fulfils, one that is rejected
\* once with a status that is not retried
SmallOps ==
    {okOp, [error |-> [plainError EXCEPT !.status = 404], failures |-> 1]}

\* calls of query and queryByDid, for DIDs that resolve in every way
NextClients ==
    \/ \E q \in QueryIds : Query(q, Services \ {bridgy}, SmallOps)
    \/ \E q \in QueryIds, did \in Actors, op \in SmallOps : QueryByDid(q, did, op)
    \/ \E q \in QueryIds, out \in ResolveOutcomes : Resolved(q, out)
    \/ \E q \in QueryIds : Settle(q)

SpecClients == InitRetry /\ [][NextClients]_vars

(* ---------------- properties of XRPCManager ---------------- *)

\* the statuses the retry decision is described with
DescribedStatuses == {408, 429, 500, 502, 503, 504}

\* fn of call q has just been rejected (or ok() has thrown) and the catch
\* block of query has run
Caught(q) ==
    /\ queries[q].pc = "fn"
    /\ queries[q].method # "queryNoRetry"
    /\ queries[q].calls <= queries[q].op.failures
    /\ queries'[q] # queries[q]

Retried(q) == queries'[q].pc \in {"fn", "sleeping"}
Surfaced(q) ==
    /\ queries'[q].pc = "threw"
    /\ queries'[q].error = queries[q].op.error

isPrefix(s, t) == Len(s) <= Len(t) /\ \A i \in DOMAIN s : s[i] = t[i]

\* a call of query for a service that is not the Bridgy Fed PDS, which
\* queryNoRetry refuses before it calls fn
Runs(Q) == Q.method = "query" /\ Q.service # bridgy

\* an operation that keeps failing with a described status and no
\* rate-limit-reset header
KeepsFailing(Q) ==
    /\ Runs(Q)
    /\ Q.op.failures = MaxAttempts
    /\ Q.op.error.status \in DescribedStatuses
    /\ Q.op.error.reset = noHeader

\* at most maxRetries + 1 calls of fn, the sleeps 3, 9, 27, 81, 243 before
\* the second to the sixth, then the error of fn for the caller; the attempt
\* count is the number of retries so far
Envelope(Q) ==
    /\ Q.calls <= maxRetries + 1
    /\ isPrefix(Q.slept, << 3, 9, 27, 81, 243 >>)
    /\ Q.pc = "threw" => Q.error = Q.op.error
    /\ Q.pc # "threw" => Q.attempt = Len(Q.slept)
    /\ Q.pc = "fn" => Q.calls = Len(Q.slept) + 1

C23_RetryByStatus ==
    [][ \A q \in QueryIds :
          Caught(q) =>
            LET e == queries[q].op.error
            IN  /\ ( /\ e.name = "Error"
                     /\ e.status \in DescribedStatuses
                     /\ queries[q].attempt < maxRetries ) => Retried(q)
                /\ ( /\ e.status \notin DescribedStatuses
                     /\ e.reset = noHeader
                     /\ ~e.marker ) => Surfaced(q)
      ]_vars

\* C24: query never retries an abort error, whatever its string, headers and
\* status are: the error goes to the caller when it first occurs.
C24_AbortNeverRetried ==
    [][ \A q \in QueryIds :
          Caught(q) /\ queries[q].op.error.name = "AbortError" => Surfaced(q)
      ]_vars

\* C25: a failure whose string has a transient-network marker is retried only
\* after a sleep of 3^(attempt + 1) seconds, as a retryable status is.
C25_MarkerBacksOff ==
    [][ \A q \in QueryIds :
          Caught(q) /\ queries[q].op.error.marker /\ Retried(q)
            => /\ queries'[q].pc = "sleeping"
               /\ queries'[q].wake = now + pow(3, queries[q].attempt + 1)
      ]_vars

\* the retry after a failure with a rate-limit-reset header: query sleeps
\* until the epoch second of the header (not at all when it is past), the
\* next call of fn is not made before that second, and a call whose operation
\* fails once only returns after two calls of fn
WaitsForReset(q, e) ==
    /\ Caught(q) /\ queries[q].op.error = e
         => /\ queries'[q].pc = "sleeping"
            /\ queries'[q].wake = IF now < e.reset THEN e.reset ELSE now
    /\ queries[q].pc = "sleeping" /\ queries'[q].pc = "fn" /\ queries[q].op.error = e
         => now' >= e.reset /\ now' >= queries[q].wake
TwoAttempts(Q) ==
    Q.op.failures = 1 /\ Q.pc \in {"returned", "threw"}
        => Q.pc = "returned" /\ Q.calls = 2

ResetError(e) ==
    /\ e.name = "Error"
    /\ ~e.marker
    /\ e.reset \notin {noHeader, 0}

NotFound(p, did) ==
    /\ queries[p].did = did
    /\ queries[p].pc = "threw"
    /\ queries[p].error = plainError
    /\ queries[p].resolves = 1

\* null is cached for did
CachedNull(cache, did) ==
    has(cache, did) /\ cache[get(cache, did)].service = null

\* queryByDid(did, fn) is called as call q
Called(q, did) ==
    /\ queries[q].pc = "idle"
    /\ queries'[q].pc # "idle"
    /\ queries'[q].did = did

\* the call q has thrown the error for a missing service, the resolver and
\* fn not called
FailsFromCache(q) ==
    /\ queries'[q].pc = "threw"
    /\ queries'[q].error = plainError
    /\ queries'[q].resolves = 0
    /\ queries'[q].calls = 0

\* C27 (as stated): after a DID has resolved as not found, every later
\* queryByDid for it fails with the missing-service error without a call of
\* the resolver or of the operation.
C27_EveryLaterCall ==
    [][ \A q \in QueryIds, did \in Actors :
          Called(q, did) /\ (\E p \in QueryIds : NotFound(p, did))
            => FailsFromCache(q)
      ]_vars

\* C27 (amended): a DID that resolves as not found is cached with null, and
\* as long as null is cached for it, every queryByDid for it fails with the
\* missing-service error without a call of the resolver or of the operation.
C27_NullCached ==
    [][ \A q \in QueryIds, did \in Actors :
          /\ ( /\ queries[q].pc = "resolving"
               /\ queries[q].did = did
               /\ queries'[q].pc = "threw"
               /\ queries'[q].error = plainError )
                 => CachedNull(didToServiceCache', did)
          /\ Called(q, did) /\ CachedNull(didToServiceCache, did)
                 => FailsFromCache(q) /\ CachedNull(didToServiceCache', did)
      ]_vars

\* a call for a DID found not to exist by an earlier call has failed from
\* the cache
C27_Witness ==
    \E q, p \in QueryIds :
        /\ p < q
        /\ NotFound(p, queries[q].did)
        /\ queries[q].method = "queryByDid"
        /\ queries[q].pc = "threw"
        /\ queries[q].resolves = 0
        /\ queries[q].calls = 0
        /\ CachedNull(didToServiceCache, queries[q].did)

\* the calls of fn for a service that have not settled
InFlight(service) ==
    {q \in QueryIds : queries[q].pc = "fn" /\ queries[q].service = service}

\* C28: at most concurrency operations are in flight for one service at any
\* time.
C28_InFlightPerService ==
    \A service \in Services : Cardinality(InFlight(service)) <= concurrency

(* ---------------- Database: the searches ---------------- *)

\* strings are sequences of characters; null and undefined are values that
\* are no string
nullText == << "NULL" >>
undefinedText == << "UNDEFINED" >>
\* `${text}` in a template literal
template(text) ==
    IF text = undefinedText
        THEN << "u", "n", "d", "e", "f", "i", "n", "e", "d" >>
        ELSE text

\* value LIKE '%needle%': NULL, which where takes as false, for a NULL value
contains(value, needle) ==
    /\ value # nullText
    /\ \E i \in 0..(Len(value) - Len(needle)) :
          SubSeq(value, i + 1, i + Len(needle)) = needle
\* value LIKE 'at://author%'
startsWith(value, author) ==
    /\ value # nullText
    /\ isPrefix(author, value)

\* no distance: the embedding is null
noDistance == 0 - 1
\* the rows of the post table a search runs on, in rowid order: the creator,
\* createdAt, the texts, the authority of replyParent and of replyRoot (after
\* at://), and the cosine distances, in tenths, of the embeddings to the
\* embedding searched for
SearchPosts ==
    << [rkey |-> "p1", creator |-> "did:plc:a", createdAt |-> 1,
        text |-> << "a" >>, altText |-> nullText,
        replyParent |-> nullText, replyRoot |-> nullText,
        textDistance |-> 3, altTextDistance |-> noDistance],
       [rkey |-> "p2", creator |-> "did:plc:b", createdAt |-> 2,
        text |-> << "b" >>, altText |-> << "a" >>,
        replyParent |-> << "a" >>, replyRoot |-> << "a" >>,
        textDistance |-> 7, altTextDistance |-> 2],
       [rkey |-> "p3", creator |-> "did:plc:a", createdAt |-> 3,
        text |-> << "a", "b" >>, altText |-> << >>,
        replyParent |-> << "a", "b" >>, replyRoot |-> << "a" >>,
        textDistance |-> noDistance, altTextDistance |-> noDistance],
       [rkey |-> "p4", creator |-> "did:plc:b", createdAt |-> 4,
        text |-> << >>, altText |-> << "b" >>,
        replyParent |-> nullText, replyRoot |-> << "b" >>,
        textDistance |-> 4, altTextDistance |-> 8] >>

\* the tables: some of the rows, in rowid order
RECURSIVE subSeqs(_)
subSeqs(S) ==
    IF S = << >> THEN {<< >>}
    ELSE LET rest == subSeqs(Tail(S))
         IN  rest \cup {<< Head(S) >> \o t : t \in rest}
Tables == subSeqs(SearchPosts)

\* options that are not given
noList == {"undefined"}
noAuthors == {<< "UNDEFINED" >>}
noDate == 0 - 1
invalidDate == 0 - 2
noOrder == "undefined"
noThreshold == 0 - 1

\* SearchPostsOptions
SearchOptions ==
    [results : 1..MaxResults,
     creator : {noList, {"did:plc:a"}},
     parentAuthor : {noAuthors, {<< "a" >>}},
     rootAuthor : {noAuthors, {<< "b" >>}},
     before : {noDate, invalidDate, 4},
     after : {noDate, 1},
     includeAltText : BOOLEAN,
     order : {noOrder, "asc", "desc"},
     threshold : {noThreshold, 3}]
\* the text searched for: none, the empty string, a string
SearchTexts == {undefinedText, << >>, << "a" >>, << "b" >>}

\* the where of applySearchPostsOptions
conditions(row, options) ==
    /\ options.creator # noList => row.creator \in options.creator
    /\ options.parentAuthor # noAuthors
         => \E parent \in options.parentAuthor : startsWith(row.replyParent, parent)
    /\ options.rootAuthor # noAuthors
         => \E root \in options.rootAuthor : startsWith(row.replyRoot, root)
    /\ options.before # noDate => row.createdAt < options.before
    /\ options.after # noDate => row.createdAt > options.after

\* .limit(results)
limit(rows, results) == SubSeq(rows, 1, IF Len(rows) < results THEN Len(rows) ELSE results)

\* .orderBy(column, order): the rows by key(row), rows of one key in the order
\* they have
orderBy(rows, key(_), order) ==
    LET before(i, j) ==
            \/ order = "asc" /\ key(rows[i]) < key(rows[j])
            \/ order = "desc" /\ key(rows[i]) > key(rows[j])
            \/ key(rows[i]) = key(rows[j]) /\ i < j
        rank(i) == Cardinality({j \in DOMAIN rows : before(j, i)}) + 1
    IN  [n \in DOMAIN rows |-> rows[CHOOSE i \in DOMAIN rows : rank(i) = n]]

\* applySearchPostsOptions(qb, options), where qb has selected and ordered
\* rows
applySearchPostsOptions(rows, options) ==
    limit(SelectSeq(rows, LAMBDA row : conditions(row, options)), options.results)

\* before && !beforeTs, after && !afterTs
invalidDates(options) ==
    options.before = invalidDate \/ options.after = invalidDate

createdAt(row) == row.createdAt

\* the where of searchPostsText
textMatches(row, text, options) ==
    (text \notin {undefinedText, << >>} \/ options.includeAltText)
        => \/ text \notin {undefinedText, << >>} /\ contains(row.text, template(text))
           \/ options.includeAltText /\ contains(row.altText, template(text))

\* searchPostsText(text, options) on a table
searchPostsText(table, text, options) ==
    LET order == IF options.order = noOrder THEN "desc" ELSE options.order
        qb == SelectSeq(orderBy(table, createdAt, order),
                        LAMBDA row : textMatches(row, text, options))
    IN  applySearchPostsOptions(qb, options)

\* threshold = 0.5, in tenths
defaultThreshold == 5

\* bestDistanceExpr
bestDistance(row, options) ==
    IF options.includeAltText
        THEN IF row.altTextDistance # noDistance
               THEN IF row.textDistance < row.altTextDistance
                      THEN row.textDistance ELSE row.altTextDistance
               ELSE row.textDistance
        ELSE row.textDistance

\* the rows of the results expression first, without the rows above the
\* threshold
searchPostsVector(table, options) ==
    LET order == IF options.order = noOrder THEN "asc" ELSE options.order
        threshold == IF options.threshold = noThreshold THEN defaultThreshold
                     ELSE options.threshold
        best(row) == bestDistance(row, options)
        embedded == SelectSeq(table, LAMBDA row : row.textDistance # noDistance)
        results == applySearchPostsOptions(orderBy(embedded, best, order), options)
    IN  SelectSeq(results, LAMBDA row : best(row) <= threshold)

noSearch == << >>
Apart == UNCHANGED << queueVars, backfillVars, clientVars >>

\* searchPostsText(text, options) is called on some table and settles; the
\* options are without a threshold, which it does not read
SearchPostsText ==
    /\ search = noSearch
    /\ \E table \in Tables, text \in SearchTexts, options \in SearchOptions :
          /\ options.threshold = noThreshold
          /\ search' = [fn |-> "searchPostsText", table |-> table, text |-> text,
                        options |-> options, threw |-> invalidDates(options),
                        out |-> IF invalidDates(options) THEN << >>
                                ELSE searchPostsText(table, text, options)]
    /\ Apart

\* searchPostsVector(embedding, options) is called on some table and settles
SearchPostsVector ==
    /\ search = noSearch
    /\ \E table \in Tables, options \in SearchOptions :
          search' = [fn |-> "searchPostsVector", table |-> table,
                     text |-> undefinedText,
                     options |-> options, threw |-> invalidDates(options),
                     out |-> IF invalidDates(options) THEN << >>
                             ELSE searchPostsVector(table, options)]
    /\ Apart

InitSearch ==
    /\ NoQueue
    /\ NoRequests

\* one search, of either kind
NextSearch ==
    \/ SearchPostsText
    \/ SearchPostsVector

SpecSearch == InitSearch /\ [][NextSearch]_vars

(* ---------------- properties of the searches ---------------- *)

range(s) == {s[i] : i \in DOMAIN s}
ordered(rows, key(_), order) ==
    \A i, j \in DOMAIN rows :
        i < j => IF order = "asc" THEN key(rows[i]) <= key(rows[j])
                 ELSE key(rows[i]) >= key(rows[j])
atMost(n, m) == IF n < m THEN n ELSE m

\* the posts of the table a text search is to return
Wanted(table, text, options) ==
    {row \in range(table) :
        /\ conditions(row, options)
        /\ text \notin {undefinedText, << >>}
             => \/ contains(row.text, text)
                \/ options.includeAltText /\ contains(row.altText, text)}

\* C29: searchPostsText returns exactly the posts that pass every filter
\* given and, when the text searched for is not empty, whose text (or alt
\* text, with includeAltText) contains it, as many as results allows; with an
\* empty or no text searched for the filters alone decide, with and without
\* includeAltText.
C29_TextSearch ==
    search # noSearch /\ search.fn = "searchPostsText" /\ ~search.threw
        => LET wanted == Wanted(search.table, search.text, search.options)
           IN  /\ range(search.out) \subseteq wanted
               /\ Len(search.out) = atMost(search.options.results, Cardinality(wanted))

\* the posts of the table a vector search may return
Qualifying(table, options) ==
    {row \in range(table) :
        /\ row.textDistance # noDistance
        /\ conditions(row, options)
        /\ bestDistance(row, options)
             <= IF options.threshold = noThreshold THEN defaultThreshold
                ELSE options.threshold}

\* C30: searchPostsVector returns only posts with an embedding that pass the
\* filters and whose best distance is at most the threshold (0.5 when none is
\* given), the first results of them in the order asked for (ascending when
\* none is): no such row is left out while fewer than results are returned.
C30_VectorSearch ==
    search # noSearch /\ search.fn = "searchPostsVector" /\ ~search.threw
        => LET qualifying == Qualifying(search.table, search.options)
               order == IF search.options.order = noOrder THEN "asc"
                        ELSE search.options.order
               best(row) == bestDistance(row, search.options)
           IN  /\ range(search.out) \subseteq qualifying
               /\ ordered(search.out, best, order)
               /\ Len(search.out) = atMost(search.options.results, Cardinality(qualifying))
               /\ \A row \in qualifying \ range(search.out) :
                     \A got \in range(search.out) :
                        IF order = "asc" THEN best(got) <= best(row)
                        ELSE best(got) >= best(row)

(* ---------------- two runs of backfill() ---------------- *)

\* a remote that answers every request, and the same way each time: every
\* post is a reply to the post it is linked with and quotes nothing, the
\* thread view of a post shows its parent and no reply, and fetchPost gets
\* the view
servedRecords(uri) ==
    { r \in Records(uri) : r.createdAt /\ r.quoted = noUri /\ r.reply = linked(uri) }
servedThreads(uri, quoted, reply) ==
    { t \in ThreadViews(uri, quoted, reply) :
        ~t.quotedRecordView /\ t.parent = "threadViewPost" /\ t.reply = noUri }
servedOutcomes == { out \in FetchOutcomes : out.got = "record" /\ out.threadView }

\* the repositories of a user who follows nobody: posts (of the uris the
\* model knows), likes and reposts
RunCars ==
    { car \in Cars(MaxEntries) :
        \A i \in DOMAIN car :
            /\ car[i].shape = "valid"
            /\ Collections[car[i].collection] \in
                   {"app.bsky.feed.like", "app.bsky.feed.post", "app.bsky.feed.repost"}
            /\ Collections[car[i].collection] = "app.bsky.feed.post"
                   => car[i].rkey = << 1, 1 >> }

\* nothing of an earlier backfill() is under way
Quiet ==
    /\ backfill = "returned"
    /\ execs = {}
    /\ _queue = << >>
    /\ toWrite = << >>
    /\ writes = << >>
    /\ \A c \in CrawlIds : crawls[c].pc \in {"idle", "done", "failed"}

\* new BackgroundQueue(...) with the options of the queue there was
NewQueue ==
    /\ UNCHANGED config
    /\ _queue' = << >>
    /\ _active' = 0
    /\ _running' = 0
    /\ promisesWaitingForSpace' = << >>
    /\ pc' = [id \in Calls |-> "idle"]
    /\ method' = [id \in Calls |-> "none"]
    /\ execs' = {}
    /\ processAllState' = "idle"
    /\ queuedEvents' = 0
    /\ completedEvents' = 0
    /\ errorEvents' = [id \in Calls |-> 0]
    /\ failures' = 0
    /\ entered' = 0
    /\ starts' = 0
    /\ waitingAtCall' = [id \in Calls |-> {}]
    /\ waitingAtInsert' = [id \in Calls |-> {}]

\* backfill() is called for the c-th time, in a process of its own: a new
\* Backfill with its queues, the database as it is; up to the first await of
\* processRepo for the user's repository
CallBackfill(c) ==
    /\ crawls[c].pc = "idle"
    /\ \A b \in CrawlIds : b < c => crawls[b].pc # "idle"
    /\ backfill = "off" \/ Quiet
    /\ NewQueue
    /\ calls' = [id \in Calls |-> noCall]
    /\ seenPosts' = {}
    /\ toWrite' = << >>
    /\ writes' = << >>
    /\ buffered' = [uri \in PostUris |-> 0]
    /\ backfill' = "processRepo"
    /\ crawls' = [crawls EXCEPT ![c] = [@ EXCEPT !.pc = "getRepoRev", !.did = userDid,
                                                 !.collections = ownCollections]]
    /\ UNCHANGED << post, embeddingsEnabled, embeddingsQueue, repoRev, remote, outerVars >>

\* one round of the second loop of processRepo, with the add of the
\* processor on the post queue
HandOverPost(c) ==
    /\ handOver(c)
    /\ LET r == Head(crawls[c].records)
           p == processors(r)
       IN IF p.threw \/ p.adds = << >>
          THEN UNCHANGED << _queue, _active, _running, promisesWaitingForSpace, pc,
                            method, execs, queuedEvents, entered, starts,
                            waitingAtCall, waitingAtInsert, calls >>
          ELSE /\ p.adds[1].queue = "postQueue"
               /\ hand(p.adds[1], r.collection)
    /\ UNCHANGED << config, processAllState, completedEvents, errorEvents, failures,
                    remote, outerVars, seenPosts, toWrite, writes, post, buffered,
                    embeddingsEnabled, embeddingsQueue, backfill >>

\* the loop of backfill() after processRepo has returned
LoopAfterRepo ==
    /\ \A c \in CrawlIds : crawls[c].pc \in {"idle", "done", "failed"}
    /\ BackfillLoop

\* the user's repository, unchanged over the runs, and an empty database
InitRuns ==
    /\ PostQueueInTurn
    /\ NoRequests
    /\ NoEngine
    /\ repoRev = [did \in Dids |-> noRev]
    /\ \E car \in RunCars :
         remote = [did \in Dids |->
                      [rev |-> Tids[2], car |-> IF did = userDid THEN car ELSE << >>]]
    /\ crawls = [c \in CrawlIds |-> idleCrawl]

NextRuns ==
    \/ \E c \in CrawlIds : CallBackfill(c)
    \/ \E c \in CrawlIds : GotRev(c)
    \/ \E c \in CrawlIds : FetchedOn(c, {FALSE})
    \/ \E c \in CrawlIds : HandOverPost(c)
    \/ \E c \in CrawlIds : SetRev(c)
    \/ \E e \in execs : RunOn(e, servedRecords)
    \/ \E e \in execs, out \in servedOutcomes :
          FetchedPostOn(e, out, servedRecords, servedThreads, {TRUE})
    \/ \E e \in execs : GotThreadOn(e, servedThreads)
    \/ \E e \in execs : Settled(e)
    \/ \E i \in DOMAIN writes : Inserted(i, TRUE)
    \/ LoopAfterRepo

SpecRuns == InitRuns /\ [][NextRuns]_vars

\* the keys (creator, rkey) of the rows of table post
stored(table) == {uri \in PostUris : table[uri] # noRow}

\* C21: a second run of backfill against a remote that has not changed
\* leaves the set of post rows as it is: it stores no (creator, rkey) the
\* first run did not store, and no row is ever removed.
C21_SecondRunSameRows ==
    [][ /\ stored(post) \subseteq stored(post')
        /\ crawls[2].pc # "idle" => stored(post') = stored(post)
      ]_vars

(* ---------------- Backfill.processPost on one thread ---------------- *)

MAX_DEPTH == 5

BSKY_APP_DID == "did:plc:z72i7hdynmk6r22z27h6tvur"

\* this.maxDepth = options.depth ?? MAX_DEPTH
DepthOptions == {MAX_DEPTH - 1, MAX_DEPTH}

\* A thread is a chain of posts, post 0 its root and post k + 1 the reply to
\* post k, with a second reply to the root beside post 1; one more post,
\* outside the thread, can be quoted.
ThreadPosts == 0..ThreadLen

sidePost == ThreadLen + 1

quotedPost == ThreadLen + 2

\* the position where an ancestor can be blocked or deleted
cutAt == 1

\* What varies between threads: whose post the root or the quoted post is,
\* what the appview returns in place of post cutAt, which post embeds the
\* quoted post and whether its view carries the quoted record.
Threads ==
    { w \in [official : {"none", "root", "quoted"},
             cut : {"threadViewPost", "blockedPost", "notFoundPost"},
             quoter : {-1, 0, 2, ThreadLen},
             quotedRecordView : BOOLEAN] :
        /\ w.quoter = -1 => (~w.quotedRecordView /\ w.official # "quoted")
        /\ w.official = "root" => w.quoter = -1
        /\ w.cut # "threadViewPost" => (w.official = "none" /\ w.quoter = -1) }

postUri(w, k) ==
    [repo |-> IF (k = 0 /\ w.official = "root") \/ (k = quotedPost /\ w.official = "quoted")
              THEN BSKY_APP_DID ELSE "did:plc:other",
     collection |-> "app.bsky.feed.post",
     rkey |-> << k >>]

\* the post behind a uri of the thread
at(uri) == uri.rkey[1]

\* a uri outside the thread: the context of the tuple the first call gets
elsewhere == [repo |-> "did:plc:other", collection |-> "app.bsky.feed.post", rkey |-> << 0, 0 >>]

\* record.reply of post k: the positions of parent and root, << >> without
replyOf(k) ==
    IF k = 0 \/ k = quotedPost THEN << >>
    ELSE [parent |-> IF k = sidePost THEN 0 ELSE k - 1, root |-> 0]

\* an element of threadView.parent... or threadView.replies
viewOf(w, k) ==
    [kind |-> IF k = cutAt THEN w.cut ELSE "threadViewPost", at |-> k]

\* threadView.replies of post k
repliesOf(w, k) ==
    IF k = 0 THEN << viewOf(w, 1), viewOf(w, sidePost) >>
    ELSE IF k < ThreadLen THEN << viewOf(w, k + 1) >>
    ELSE << >>

\* threadView.post.replyCount is absent
noReplyCount == -1

\* threadView.post.replyCount: absent, or a count
ReplyCounts == {noReplyCount, 91, 200}

\* where Math.round(logarithmicScale([5, 200], [20, 3], n)) takes a new value
\* between the ends of the scale: the first n of each value of
\* exp(ln 20 + (ln n - ln 5) / (ln 200 - ln 5) * (ln 3 - ln 20)) rounded
scaleSteps ==
    << << 6, 18 >>, << 7, 17 >>, << 8, 16 >>, << 9, 15 >>, << 10, 14 >>, << 11, 13 >>,
       << 13, 12 >>, << 15, 11 >>, << 18, 10 >>, << 22, 9 >>, << 27, 8 >>, << 34, 7 >>,
       << 45, 6 >>, << 62, 5 >>, << 91, 4 >>, << 149, 3 >> >>

\* Math.round(logarithmicScale([5, 200], [20, 3], input))
logarithmicScale(input) ==
    IF input <= 5 THEN 20
    ELSE IF input >= 200 THEN 3
    ELSE LET i == CHOOSE j \in DOMAIN scaleSteps :
                     /\ scaleSteps[j][1] <= input
                     /\ j < Len(scaleSteps) => input < scaleSteps[j + 1][1]
         IN scaleSteps[i][2]

maxThreadDepth_flat(replyCount) == 20

\* lines 429-431, with replyCount ?? 0
maxThreadDepth(replyCount) ==
    logarithmicScale(IF replyCount = noReplyCount THEN 0 ELSE replyCount)

\* one `void this.postQueue.add / prepend(...)` of call n
handOn(n, m, uri, depth, record, reason, context) ==
    [n |-> n, req |-> request(m, uri, depth, record, [reason |-> reason, context |-> context])]

RECURSIVE processPostReplies(_, _, _, _, _)
\* processPostReplies({sourceUri, replies, backfillDepth, threadDepth, maxThreadDepth}),
\* replies being those of post k: the prepends in their order
processPostReplies(v, k, threadDepth, maxDepthInThread, i) ==
    LET replies == repliesOf(v.thread, k)
    IN IF threadDepth > maxDepthInThread \/ i > Len(replies) THEN << >>
       ELSE ( IF replies[i].kind # "threadViewPost" THEN << >>
              ELSE << handOn(v.n, "prepend", postUri(v.thread, replies[i].at),
                             v.call.depth + 1, TRUE, "descendant_of", v.call.uri) >>
                   \o processPostReplies(v, replies[i].at, threadDepth + 1, maxDepthInThread, 1) )
            \o processPostReplies(v, k, threadDepth, maxDepthInThread, i + 1)

RECURSIVE ancestors(_, _)
\* lines 402-424: the walk up threadView.parent from post k
ancestors(v, k) ==
    IF replyOf(k) = << >> THEN << >>
    ELSE LET parent == viewOf(v.thread, replyOf(k).parent)
         IN IF parent.kind = "threadViewPost"
            THEN << handOn(v.n, "prepend", postUri(v.thread, parent.at), v.call.depth + 1,
                           TRUE, "ancestor_of", v.call.uri) >>
                 \o ancestors(v, parent.at)
            ELSE IF parent.kind = "blockedPost"
            THEN << handOn(v.n, "add", postUri(v.thread, parent.at), v.call.depth + 1,
                           FALSE, "ancestor_of", v.call.uri) >>
            ELSE << >>

\* lines 385-399: no thread view
parentAndRoot(v, k) ==
    IF replyOf(k) = << >> THEN << >>
    ELSE << handOn(v.n, "add", postUri(v.thread, replyOf(k).parent), v.call.depth + 1,
                   FALSE, "ancestor_of", v.call.uri),
            handOn(v.n, "add", postUri(v.thread, replyOf(k).root), v.call.depth + 1,
                   FALSE, "ancestor_of", v.call.uri) >>

\* lines 323-350: the quoted record
quotedOf(v, k, threadView) ==
    IF k # v.thread.quoter THEN << >>
    ELSE IF threadView /\ v.thread.quotedRecordView
    THEN << handOn(v.n, "prepend", postUri(v.thread, quotedPost), v.call.depth + 1,
                   TRUE, "quoted_by", v.call.uri) >>
    ELSE << handOn(v.n, "add", postUri(v.thread, quotedPost), v.call.depth + 1,
                   FALSE, "quoted_by", v.call.uri) >>

\* the call returns
ret(v) ==
    [v EXCEPT !.call.pc = "returned", !.done = Append(@, [v.call EXCEPT !.pc = "returned"])]

\* lines 401-438, with the thread view at hand
withThread(v, replyCount) ==
    LET k == at(v.call.uri)
    IN ret([v EXCEPT !.handed = @ \o ancestors(v, k)
                              \o processPostReplies(v, k, 1, maxThreadDepth(replyCount), 1),
                     !.call.replyCount = replyCount])

asDescendant_never(inclusion) == FALSE

\* line 354
asDescendant(inclusion) == inclusion.reason = "descendant_of"

\* line 360
asAncestor(inclusion) == inclusion.reason = "ancestor_of"

hasBudget_never(depth, budget) == FALSE

\* line 364: enough depth budget to go up to the root and down again
hasBudget(depth, budget) == depth + 1 < budget

\* lines 284-382, from the record on: createdAt parses or not; threadView came
\* with the record or not; replyCount is read when it did
body(u, dated, threadView, replyCount) ==
    LET c == u.call
        k == at(c.uri)
        v == [u EXCEPT !.seenPosts = @ \cup {c.uri}]
        w == [v EXCEPT !.toWrite = Append(@, [n |-> v.n, row |-> Post(c.uri, c.depth, [text |-> "text"], c.inclusion)]),
                       !.call.wrote = TRUE,
                       !.handed = @ \o quotedOf(v, k, threadView)]
    IN IF ~dated THEN ret(v)
       ELSE IF asDescendant(c.inclusion) THEN ret(w)
       ELSE IF replyOf(k) # << >> /\ asAncestor(c.inclusion) THEN ret(w)
       ELSE IF replyOf(k) # << >> /\ hasBudget(c.depth, w.maxDepth)
       THEN ret([w EXCEPT !.handed = @ \o << handOn(w.n, "add", postUri(w.thread, replyOf(k).root),
                                                    c.depth + 1, FALSE, "ancestor_of", c.uri) >>])
       ELSE IF threadView THEN withThread([w EXCEPT !.call.threadView = "fetchPost"], replyCount)
       ELSE [w EXCEPT !.call.pc = "getPostThread",
                      !.fetched = Append(@, [n |-> w.n, uri |-> c.uri, by |-> "processPost"])]

\* the tuples the first call can get: from a crawled repository (a record,
\* depth 0), or from an earlier call
FirstDepths == {0, MAX_DEPTH - 2, MAX_DEPTH - 1}

FirstTuples(w) ==
    { [n |-> 0, req |-> request("add", postUri(w, k), 0, TRUE, [reason |-> "self"])] :
        k \in {0, 2, ThreadLen} }
    \cup
    { handOn(0, "add", postUri(w, k), depth, record, reason, elsewhere) :
        k \in {0, 2, ThreadLen}, depth \in FirstDepths, record \in BOOLEAN,
        reason \in {"quoted_by", "ancestor_of", "descendant_of"} }

\* no call is running
idleCall == [pc |-> "returned", wrote |-> FALSE, threadView |-> "none", replyCount |-> noReplyCount]

\* nothing but the calls changes
Around ==
    UNCHANGED << queueVars, repoVars, seenPosts, toWrite, writes, post, buffered,
                 embeddingsEnabled, embeddingsQueue, backfill, clientVars, search >>

\* the post queue takes the i-th tuple it was handed and processPost runs to
\* its first await, or to its end
VisitRun(i) ==
    /\ visit.call.pc = "returned"
    /\ visit.n < MaxVisits
    /\ i \in DOMAIN visit.handed \ visit.taken
    /\ LET c == visit.handed[i].req
           v == [visit EXCEPT !.n = @ + 1, !.taken = @ \cup {i},
                              !.call = [idleCall EXCEPT !.pc = "run"] @@ c @@ [from |-> i]]
       IN \/ /\ \/ c.depth > v.maxDepth
                \/ c.uri \in v.seenPosts
                \/ ~c.record /\ c.uri.collection # "app.bsky.feed.post"
                \/ ~c.record /\ c.uri.repo = BSKY_APP_DID
             /\ calls' = ret(v)
          \/ /\ c.depth <= v.maxDepth
             /\ c.uri \notin v.seenPosts
             /\ ~c.record
             /\ c.uri.collection = "app.bsky.feed.post"
             /\ c.uri.repo # BSKY_APP_DID
             /\ calls' = [v EXCEPT !.call.pc = "fetchPost",
                                   !.fetched = Append(@, [n |-> v.n, uri |-> c.uri, by |-> "fetchPost"])]
          \/ /\ c.depth <= v.maxDepth
             /\ c.uri \notin v.seenPosts
             /\ c.record
             /\ \E dated \in BOOLEAN : calls' = body(v, dated, FALSE, noReplyCount)
    /\ Around

\* how fetchPost settles: with record and thread view, with the record alone
\* (getRecord, or a thread view that fails its schema), or with no record or
\* an error
FetchedKinds == {"threadView", "record", "none"}

\* fetchPost settles and processPost runs on
VisitFetched(out) ==
    /\ visit # << >>
    /\ visit.call.pc = "fetchPost"
    /\ \/ /\ out = "none"
          /\ calls' = ret(visit)
       \/ /\ out = "record"
          /\ \E dated \in BOOLEAN : calls' = body(visit, dated, FALSE, noReplyCount)
       \/ /\ out = "threadView"
          /\ viewOf(visit.thread, at(visit.call.uri)).kind = "threadViewPost"
          /\ \E dated \in BOOLEAN, replyCount \in ReplyCounts :
                calls' = body(visit, dated, TRUE, replyCount)
    /\ Around

\* the getPostThread of line 376 settles, with a thread view or not
VisitGotThread(threadView) ==
    /\ visit # << >>
    /\ visit.call.pc = "getPostThread"
    /\ \/ /\ ~threadView
          /\ calls' = ret([visit EXCEPT !.handed = @ \o parentAndRoot(visit, at(visit.call.uri))])
       \/ /\ threadView
          /\ viewOf(visit.thread, at(visit.call.uri)).kind = "threadViewPost"
          /\ \E replyCount \in ReplyCounts :
                calls' = withThread([visit EXCEPT !.call.threadView = "processPost"], replyCount)
    /\ Around

\* a Backfill with either depth option, a thread, and the first tuple in the
\* post queue
InitVisit ==
    /\ QueueAside
    /\ NoRequests
    /\ repoRev = << >>
    /\ remote = << >>
    /\ crawls = << >>
    /\ seenPosts = {}
    /\ toWrite = << >>
    /\ writes = << >>
    /\ post = << >>
    /\ buffered = << >>
    /\ embeddingsEnabled = FALSE
    /\ embeddingsQueue = << >>
    /\ backfill = "off"
    /\ \E depth \in DepthOptions, w \in Threads :
         \E first \in FirstTuples(w) :
            /\ w.quoter \in {-1, at(first.req.uri)}
            /\ calls = [maxDepth |-> depth, thread |-> w, n |-> 0, call |-> idleCall,
                        handed |-> << first >>, taken |-> {}, seenPosts |-> {},
                        toWrite |-> << >>, fetched |-> << >>, done |-> << >>]

NextVisit ==
    \/ \E i \in DOMAIN visit.handed : VisitRun(i)
    \/ \E out \in FetchedKinds : VisitFetched(out)
    \/ \E threadView \in BOOLEAN : VisitGotThread(threadView)

SpecVisit == InitVisit /\ [][NextVisit]_vars

(* ---------------- properties of processPost on one thread ---------------- *)

\* the tuples call n handed to the post queue, as positions in visit.handed
handedBy(n) == {i \in DOMAIN visit.handed : visit.handed[i].n = n}

\* those that do not come from the quote expansion
threadHandedBy(n) == {i \in handedBy(n) : visit.handed[i].req.inclusion.reason # "quoted_by"}

\* the requests call n made for a thread
fetchedBy(n) == {i \in DOMAIN visit.fetched : visit.fetched[i].n = n}

\* the post of call c is a reply
isReply(c) == replyOf(at(c.uri)) # << >>

\* C37: no row buffered for insertion has the first-party service DID as
\* its creator, whether processPost fetched the record or was given it.
C37_NoServicePosts ==
    \A i \in DOMAIN visit.toWrite : visit.toWrite[i].row.uri.repo # BSKY_APP_DID

\* call c returns at line 354 or line 360 if it gets that far
returnsEarly(c) ==
    \/ c.inclusion.reason = "descendant_of"
    \/ c.inclusion.reason = "ancestor_of" /\ isReply(c)

\* C32 as stated: a post processed as descendant_of, and a reply processed
\* as ancestor_of, hand the post queue nothing but the quoted record and
\* make no request for a thread.
C32_NoThreadAtAll ==
    \A n \in DOMAIN visit.done :
        returnsEarly(visit.done[n]) =>
            /\ threadHandedBy(n) = {}
            /\ fetchedBy(n) = {}

\* C32: a post processed as descendant_of, and a reply processed as
\* ancestor_of, hand the post queue nothing but the quoted record, and the
\* only request for a thread they make is the one of fetchPost, which is
\* made if and only if the tuple carried no record and the call got as far
\* as fetchPost's request.
C32_ReturnsEarly ==
    \A n \in DOMAIN visit.done :
        LET c == visit.done[n]
        IN returnsEarly(c) =>
            /\ threadHandedBy(n) = {}
            /\ \A i \in fetchedBy(n) : visit.fetched[i].by = "fetchPost" /\ ~c.record
            /\ Cardinality(fetchedBy(n)) <= 1
            /\ c.wrote /\ ~c.record => fetchedBy(n) # {}
            /\ c.record => fetchedBy(n) = {}

\* a blocked parent, handed over without a record by the parent walk of the
\* first call, has been fetched and processed as ancestor_of
C32_Witness ==
    \E n \in DOMAIN visit.done :
        LET c == visit.done[n]
        IN /\ c.inclusion.reason = "ancestor_of" /\ isReply(c) /\ c.wrote
           /\ c.from > 1 /\ ~c.record
           /\ fetchedBy(n) # {}

\* the post of call c is a reply, and c is the reason the thread is looked at
opensThread(c) ==
    /\ c.wrote
    /\ isReply(c)
    /\ c.inclusion.reason \notin {"ancestor_of", "descendant_of"}

\* C33: a reply processed with a reason other than ancestor_of or
\* descendant_of and with depth + 1 < maxDepth hands the post queue, beside
\* the quoted record, one tuple only: its thread root, added with reason
\* ancestor_of, the reply's uri as context and depth + 1; it requests no
\* thread of its own.
C33_RootOnce ==
    \A n \in DOMAIN visit.done :
        LET c == visit.done[n]
        IN opensThread(c) /\ c.depth + 1 < visit.maxDepth =>
            /\ Cardinality(threadHandedBy(n)) = 1
            /\ \A i \in threadHandedBy(n) :
                  visit.handed[i] =
                      handOn(n, "add", postUri(visit.thread, 0), c.depth + 1, FALSE,
                             "ancestor_of", c.uri)
            /\ \A i \in fetchedBy(n) : visit.fetched[i].by = "fetchPost"

\* scenario S3: the leaf reply below three ancestors and the root, with
\* maxDepth = 5, has been processed with budget left and has handed over
\* the root
C33_Witness ==
    \E n \in DOMAIN visit.done :
        LET c == visit.done[n]
        IN /\ opensThread(c)
           /\ at(c.uri) = ThreadLen
           /\ visit.maxDepth = MAX_DEPTH
           /\ c.depth = MAX_DEPTH - 2
           /\ \E i \in threadHandedBy(n) : at(visit.handed[i].req.uri) = 0

\* how many levels post a is nested below post b in the thread (0 when it is
\* not below it)
levelsBelow(a, b) ==
    IF a = sidePost THEN (IF b = 0 THEN 1 ELSE 0)
    ELSE IF a \in ThreadPosts /\ b \in ThreadPosts /\ a > b THEN a - b
    ELSE 0

\* the reply counts the scale is looked at for
MaxReplyCount == 260

\* maxThreadDepth at the ends of the scale and in between
scaleEnds ==
    \A replyCount \in {noReplyCount} \cup 0..MaxReplyCount :
        /\ replyCount <= 5 => maxThreadDepth(replyCount) = 20
        /\ replyCount >= 200 => maxThreadDepth(replyCount) = 3
        /\ replyCount \in 5..MaxReplyCount - 1 =>
              maxThreadDepth(replyCount + 1) <= maxThreadDepth(replyCount)

\* C35: every tuple processPost hands over with reason descendant_of is a
\* prepend of a reply below the post being processed, with that post's uri
\* as context and its depth + 1, nested at most maxThreadDepth levels below
\* it; maxThreadDepth is 20 up to 5 replies, 3 from 200 replies on and never
\* grows with the reply count.
C35_FanOut ==
    /\ scaleEnds
    /\ \A i \in DOMAIN visit.handed :
          LET h == visit.handed[i]
          IN h.n > 0 /\ h.req.inclusion.reason = "descendant_of" =>
                LET c == visit.done[h.n]
                IN /\ h.req.m = "prepend"
                   /\ h.req.inclusion.context = c.uri
                   /\ h.req.depth = c.depth + 1
                   /\ levelsBelow(at(h.req.uri), at(c.uri)) \in 1..maxThreadDepth(c.replyCount)

\* the root of a thread with 200 replies has been processed: its replies down
\* to the third level are handed over, the reply on the fourth is not
C35_Witness ==
    \E n \in DOMAIN visit.done :
        LET c == visit.done[n]
        IN /\ at(c.uri) = 0
           /\ c.replyCount = 200
           /\ \E i \in handedBy(n) :
                 /\ visit.handed[i].req.inclusion.reason = "descendant_of"
                 /\ at(visit.handed[i].req.uri) = 3
           /\ \A i \in handedBy(n) : at(visit.handed[i].req.uri) \in ThreadPosts \cup {sidePost}
           /\ \A i \in handedBy(n) : at(visit.handed[i].req.uri) \in ThreadPosts =>
                 at(visit.handed[i].req.uri) <= 3
           /\ ThreadLen > 3

\* the posts above post k in the thread
above(k) == IF k = sidePost THEN {0} ELSE {p \in ThreadPosts : p < k}

\* the nearest post above post k that the appview does not show, -1 if none
hidden(w, k) ==
    IF w.cut # "threadViewPost" /\ cutAt \in above(k) THEN cutAt ELSE -1

\* call c is a reply that opens its thread without the budget for the root
\* to fan out, and got the thread view
walksUp(c) ==
    /\ opensThread(c)
    /\ c.depth + 1 >= visit.maxDepth
    /\ c.threadView # "none"

\* the tuples call n handed over with reason ancestor_of for post p
ancestorHandedBy(n, p) ==
    {i \in handedBy(n) : /\ visit.handed[i].req.inclusion.reason = "ancestor_of"
                          /\ at(visit.handed[i].req.uri) = p}

\* C34, the walk: a reply without depth budget hands over each post of the
\* inlined parent chain once, with reason ancestor_of, its own uri as
\* context and depth + 1, up to the root or to the first parent that is not
\* shown; a blocked parent is added without a record, nothing is handed over
\* for the posts above it.
C34_WalkUp ==
    \A n \in DOMAIN visit.done :
        LET c == visit.done[n]
            k == at(c.uri)
            stop == hidden(visit.thread, k)
        IN walksUp(c) =>
            \A p \in above(k) :
                LET sent == ancestorHandedBy(n, p)
                IN /\ p > stop =>
                        /\ Cardinality(sent) = 1
                        /\ \A i \in sent :
                              visit.handed[i] =
                                  handOn(n, "prepend", postUri(visit.thread, p), c.depth + 1,
                                         TRUE, "ancestor_of", c.uri)
                   /\ p = stop /\ visit.thread.cut = "blockedPost" =>
                        /\ Cardinality(sent) = 1
                        /\ \A i \in sent :
                              visit.handed[i] =
                                  handOn(n, "add", postUri(visit.thread, p), c.depth + 1,
                                         FALSE, "ancestor_of", c.uri)
                   /\ p < stop \/ (p = stop /\ visit.thread.cut # "blockedPost") => sent = {}

\* C34: the walk as above, and the root it reaches requests no thread and
\* hands over no descendant when it is processed.
C34_NoRootRefetch ==
    /\ C34_WalkUp
    /\ \A n \in DOMAIN visit.done :
          walksUp(visit.done[n]) =>
              \A r \in DOMAIN visit.done :
                  /\ visit.done[r].from \in ancestorHandedBy(n, 0)
                  => /\ fetchedBy(r) = {}
                     /\ \A i \in handedBy(r) :
                           visit.handed[i].req.inclusion.reason # "descendant_of"

(* ---------------- the explain command ---------------- *)

\* a uri of a record that is no post, and a context that is no at-uri (the
\* DID of a reposter)
likeUri == [repo |-> userDid, collection |-> "app.bsky.feed.like", rkey |-> << 1, 1 >>]

reposter == [repo |-> "did:plc:followed", collection |-> "none", rkey |-> << 1 >>]

\* parseCanonicalResourceUri(uri).ok
canonical(uri) == uri.collection # "none"

\* what explain can be asked about, and what a row can have as its context
ExplainUris == PostUris \cup {likeUri, reposter}

\* a row of table post as explain reads it; inclusionContext is noUri when null
IndexRows ==
    { r \in [found : BOOLEAN, inclusionContext : ExplainUris \cup {noUri}] :
        ~r.found => r.inclusionContext = noUri }

isSeen_never(seen, currentUri) == FALSE

\* seen.has(currentUri)
isSeen(seen, currentUri) == currentUri \in seen

\* explainUri(currentUri) is entered, for the uri of the command or for an
\* inclusion context, and runs to the await of getPost or to its return
ExplainUri ==
    /\ explain # << >>
    /\ explain.pc = "explainUri"
    /\ LET currentUri == explain.currentUri
       IN IF isSeen(explain.seen, currentUri)
          THEN search' = [explain EXCEPT !.pc = "returned",
                              !.out = Append(@, [line |-> "recursion detected", uri |-> currentUri])]
          ELSE LET e == [explain EXCEPT !.seen = @ \cup {currentUri}]
               IN IF ~canonical(currentUri)
                  THEN search' = [e EXCEPT !.pc = "returned",
                                      !.out = Append(@, [line |-> "invalid uri", uri |-> currentUri])]
                  ELSE IF currentUri.collection # "app.bsky.feed.post"
                  THEN search' = [e EXCEPT !.pc = "returned",
                                      !.out = Append(@, [line |-> "collection", uri |-> currentUri])]
                  ELSE search' = [e EXCEPT !.pc = "getPost",
                                      !.lookups = Append(@, currentUri)]
    /\ Apart

\* db.getPost settles; with an inclusion context the handle of its repo is
\* resolved next
GotPost ==
    /\ explain # << >>
    /\ explain.pc = "getPost"
    /\ LET row == explain.index[explain.currentUri]
       IN IF ~row.found
          THEN search' = [explain EXCEPT !.pc = "returned",
                              !.out = Append(@, [line |-> "post not found in index",
                                                 uri |-> explain.currentUri])]
          ELSE IF row.inclusionContext # noUri /\ canonical(row.inclusionContext)
          THEN search' = [explain EXCEPT !.pc = "resolveAtprotoData"]
          ELSE IF row.inclusionContext # noUri
          THEN search' = [explain EXCEPT !.pc = "explainUri",
                              !.currentUri = row.inclusionContext,
                              !.out = Append(@, [line |-> "reason, context", uri |-> explain.currentUri])]
          ELSE search' = [explain EXCEPT !.pc = "returned",
                              !.out = Append(@, [line |-> "reason", uri |-> explain.currentUri])]
    /\ Apart

\* resolveAtprotoData settles, with a handle or with null; the line is
\* printed and explainUri is called with the context
GotHandle(handle) ==
    /\ explain # << >>
    /\ explain.pc = "resolveAtprotoData"
    /\ search' = [explain EXCEPT
                      !.pc = "explainUri",
                      !.currentUri = explain.index[explain.currentUri].inclusionContext,
                      !.out = Append(@, [line |-> IF handle THEN "reason, handle, context"
                                                   ELSE "reason, context",
                                         uri |-> explain.currentUri])]
    /\ Apart

\* explain <uri> on any content of table post
InitExplain ==
    /\ NoQueue
    /\ queries = << >>
    /\ now = 0
    /\ didToServiceCache = << >>
    /\ \E index \in [PostUris -> IndexRows], uri \in ExplainUris :
         search = [index |-> index, seen |-> {}, currentUri |-> uri, pc |-> "explainUri",
                    lookups |-> << >>, out |-> << >>]

NextExplain ==
    \/ ExplainUri
    \/ GotPost
    \/ \E handle \in BOOLEAN : GotHandle(handle)

SpecExplain == InitExplain /\ [][NextExplain]_vars

\* every await of the command settles
FairSpecExplain == SpecExplain /\ WF_vars(NextExplain)

(* ---------------- properties of explain ---------------- *)

\* C31: explain returns whatever table post holds; no uri is looked up
\* twice, and a uri that is met a second time is printed as a detected
\* recursion, after which nothing is looked up or printed.
C31_ExplainTerminates ==
    /\ <>(explain.pc = "returned")
    /\ [](\A i, j \in DOMAIN explain.lookups : explain.lookups[i] = explain.lookups[j] => i = j)
    /\ [][ explain.pc = "explainUri" /\ explain.currentUri \in explain.seen =>
              /\ explain.pc' = "returned"
              /\ explain.lookups' = explain.lookups
              /\ explain.out' = Append(explain.out, [line |-> "recursion detected",
                                                      uri |-> explain.currentUri]) ]_vars
    /\ [][ explain.pc = "returned" => explain' = explain ]_vars

\* a cycle through all posts of the index has been followed once and
\* reported
C31_Witness ==
    /\ explain.pc = "returned"
    /\ Len(explain.lookups) = Cardinality(PostUris)
    /\ explain.out[Len(explain.out)].line = "recursion detected"

(* ---------------- the embeddings command ---------------- *)

\* A row of table post as the command reads and writes it: text and alt text
\* (empty or not), and whether each vector is non-null. The rows are in the
\* order of (creator, rkey). A vector is there only for a text that is.
PostRows ==
    { r \in [text : {"", "text"}, altText : {"", "alt"},
              embedding : BOOLEAN, altTextEmbedding : BOOLEAN] :
        /\ r.embedding => r.text # ""
        /\ r.altTextEmbedding => r.altText # "" }

\* where embedding is null or altTextEmbedding is null, unless --force: the
\* positions of the rows selected, in order
toEmbed(table, force) ==
    SelectSeq([i \in DOMAIN table |-> i],
              LAMBDA i : force \/ ~table[i].embedding \/ ~table[i].altTextEmbedding)

\* .limit(25).offset(offset)
pageAt(selected, offset) ==
    SubSeq(selected, offset + 1, IF offset + pageSize < Len(selected)
                                 THEN offset + pageSize ELSE Len(selected))

\* the writeQueue.add of the last forEach for the row at position i: nothing
\* for a row without text and alt text
updateOf(table, i) ==
    IF table[i].text = "" /\ table[i].altText = "" THEN << >>
    ELSE << [row |-> i, embedding |-> table[i].text # "",
             altTextEmbedding |-> table[i].altText # ""] >>

RECURSIVE updatesOf(_, _)
updatesOf(table, posts) ==
    IF posts = << >> THEN << >>
    ELSE updateOf(table, Head(posts)) \o updatesOf(table, Tail(posts))

\* the query of the loop settles: offset moves on by the rows it returned,
\* and the loop ends on an empty page
Page ==
    /\ command # << >>
    /\ command.pc = "query"
    /\ LET posts == pageAt(toEmbed(command.table, command.force), command.offset)
       IN search' = [command EXCEPT !.offset = @ + Len(posts),
                                     !.posts = posts,
                                     !.pc = IF Len(posts) = 0 THEN "processAll"
                                            ELSE "extractEmbeddings"]
    /\ Apart

\* Promise.allSettled of the two extractEmbeddings: both fulfilled, and the
\* rows of the page are given to the write queue; or one rejected, `continue`
EmbeddingsExtracted(fulfilled) ==
    /\ command # << >>
    /\ command.pc = "extractEmbeddings"
    /\ search' = [command EXCEPT
                      !.pc = "query",
                      !.rejected = @ \/ ~fulfilled,
                      !.writeQueue = IF fulfilled THEN @ \o updatesOf(command.table, command.posts)
                                     ELSE @]
    /\ Apart

\* the function of the write queue (hardConcurrency 1) settles for its
\* oldest tuple: the update of both columns of the row
Update ==
    /\ command # << >>
    /\ command.writeQueue # << >>
    /\ LET u == Head(command.writeQueue)
       IN search' = [command EXCEPT
                         !.writeQueue = Tail(@),
                         !.table[u.row].embedding = u.embedding,
                         !.table[u.row].altTextEmbedding = u.altTextEmbedding]
    /\ Apart

\* writeQueue.processAll() resolves and the command ends
Generated ==
    /\ command # << >>
    /\ command.pc = "processAll"
    /\ command.writeQueue = << >>
    /\ search' = [command EXCEPT !.pc = "done"]
    /\ Apart

\* embeddings [--force] on any table of MaxPosts rows
InitEmbeddings ==
    /\ NoQueue
    /\ queries = << >>
    /\ now = 0
    /\ didToServiceCache = << >>
    /\ \E table \in [1..MaxPosts -> PostRows], force \in BOOLEAN :
         search = [table |-> table, force |-> force, offset |-> 0, posts |-> << >>,
                    writeQueue |-> << >>, rejected |-> FALSE, pc |-> "query"]

NextEmbeddings ==
    \/ Page
    \/ \E fulfilled \in BOOLEAN : EmbeddingsExtracted(fulfilled)
    \/ Update
    \/ Generated

SpecEmbeddings == InitEmbeddings /\ [][NextEmbeddings]_vars

\* C38: when the command has ended without --force and without a rejected
\* extractEmbeddings, every row with text has its embedding and every row
\* with alt text has its alt-text embedding.
C38_AllEmbedded ==
    command.pc = "done" /\ ~command.force /\ ~command.rejected =>
        \A i \in DOMAIN command.table :
            /\ command.table[i].text # "" => command.table[i].embedding
            /\ command.table[i].altText # "" => command.table[i].altTextEmbedding

(* ---------------- XRPCManager.query inside the per-service limiter ------- *)

\* The earlier query: the attempt runs as a task of the PQueue of its
\* service, and the catch block of that task awaits (or returns) a new
\* this.query(service, fn), which adds a task of its own to the same PQueue;
\* the first task settles when the second has. `attempt` is a local of each
\* call, so shouldRetry is always asked about attempt 0 and its answer is
\* whether the error is one that is retried. One service is looked at.

\* the operation passed as fn: rejected so many times in a row, with an
\* error that is retried or not, then fulfilled
LimitedOps == [rejections : 0..MaxRejections, retried : BOOLEAN]

\* a query call that has not been made: where it is, the tasks of its chain
\* that hold a slot of the PQueue, the calls of fn so far
idleLimited == [pc |-> "idle", op |-> [rejections |-> 0, retried |-> FALSE], held |-> 0, calls |-> 0]

\* the tasks of the PQueue that have started and not settled
pending(L) == SumOver([q \in QueryIds |-> L.calls[q].held], QueryIds)

\* queue.add(task): the task starts if fewer than concurrency tasks are
\* pending, otherwise it waits in line
limiterAdd(L, q) ==
    IF pending(L) < concurrency
    THEN [L EXCEPT !.calls[q].pc = "fn", !.calls[q].held = @ + 1, !.calls[q].calls = @ + 1]
    ELSE [L EXCEPT !.calls[q].pc = "waiting", !.line = Append(@, q)]

RECURSIVE limiterNext(_)
\* tasks settled: the PQueue starts the tasks in line while it has room
limiterNext(L) ==
    IF L.line = << >> \/ pending(L) >= concurrency THEN L
    ELSE LET q == Head(L.line)
         IN limiterNext([L EXCEPT !.line = Tail(@), !.calls[q].pc = "fn",
                                  !.calls[q].held = @ + 1, !.calls[q].calls = @ + 1])

\* query(service, fn) is called
LimitedQuery(q) ==
    /\ queries.calls[q].pc = "idle"
    /\ \A j \in QueryIds : j < q => queries.calls[j].pc # "idle"
    /\ \E op \in LimitedOps :
          queries' = limiterAdd([queries EXCEPT !.calls[q].op = op], q)
    /\ UNCHANGED << now, didToServiceCache >>
    /\ Aside

\* fn(client) settles in the task of call q. Fulfilled, or rejected with an
\* error that is not retried: the task settles, and with it every task of
\* the chain that waits for it. Rejected with an error that is retried:
\* shouldRetry resolves true and the task calls this.query(service, fn).
LimitedSettle(q) ==
    /\ queries.calls[q].pc = "fn"
    /\ LET Q == queries.calls[q]
       IN IF Q.calls > Q.op.rejections
          THEN queries' = limiterNext([queries EXCEPT !.calls[q].pc = "returned", !.calls[q].held = 0])
          ELSE IF ~Q.op.retried
          THEN queries' = limiterNext([queries EXCEPT !.calls[q].pc = "threw", !.calls[q].held = 0])
          ELSE queries' = limiterAdd(queries, q)
    /\ UNCHANGED << now, didToServiceCache >>
    /\ Aside

InitLimiter ==
    /\ NoQueue
    /\ queries = [calls |-> [q \in QueryIds |-> idleLimited], line |-> << >>]
    /\ now = 0
    /\ didToServiceCache = << >>
    /\ search = << >>

NextLimiter ==
    \/ \E q \in QueryIds : LimitedQuery(q)
    \/ \E q \in QueryIds : LimitedSettle(q)

SpecLimiter == InitLimiter /\ [][NextLimiter]_vars

\* every fn(client) settles
FairSpecLimiter == SpecLimiter /\ \A q \in QueryIds : WF_vars(LimitedSettle(q))

\* C39: a query that has been called returns or throws, also when its
\* attempt is rejected with an error that is retried while every slot of
\* the limiter is taken; no retry waits in line while every slot is held by
\* a task that waits for a retry in line.
C39_RetryCompletes ==
    /\ \A q \in QueryIds :
          queries.calls[q].pc # "idle" ~> queries.calls[q].pc \in {"returned", "threw"}
    /\ [](~ \E q \in QueryIds :
              /\ queries.calls[q].pc = "waiting"
              /\ queries.calls[q].held > 0
              /\ \A j \in QueryIds : queries.calls[j].held > 0 => queries.calls[j].pc = "waiting")
====
